---- MODULE Spec2Model ----
(***************************************************************************)
(* Resolution theorem prover of neuro-solver (package resolution).         *)
(* Strings are sequences of Unicode code points; comparing them            *)
(* lexicographically by code point is Go's byte-wise comparison of the     *)
(* UTF-8 encodings.                                                        *)
(***************************************************************************)
EXTENDS Integers, Sequences, FiniteSets, TLC

\* ------------------------------------------------------------------------
\* Bounds of the model
\* ------------------------------------------------------------------------

\* The iteration budget of Prove, scaled down from the source's 500000 so
\* that the budget exit is reached.
max_iterations == 9

\* Longest list of input strings handed to ParseInput.
MaxClauses == 3

\* ------------------------------------------------------------------------
\* Runes and strings
\* ------------------------------------------------------------------------

\* The runes the inputs are written in.
Ch == [lp |-> 40, rp |-> 41, comma |-> 44, sp |-> 32, slash |-> 47,
       neg |-> 172, or |-> 8744, box |-> 9633,
       A |-> 65, B |-> 66, a |-> 97, b |-> 98, c |-> 99, f |-> 102, g |-> 103,
       x |-> 120, y |-> 121, z |-> 122,
       P |-> 80, Q |-> 81, R |-> 82]

\* unicode.IsSpace restricted to Latin-1 and the runes above.
IsSpace(r) == r \in {9, 10, 11, 12, 13, 32, 133, 160}

\* unicode.IsLower && unicode.IsLetter on ASCII and basic Cyrillic.
IsLowerLetter(r) == r \in (97..122) \cup (1072..1103)

\* s1 < s2 for Go strings.
RECURSIVE StrLess(_, _)
StrLess(s1, s2) ==
    IF s2 = <<>> THEN FALSE
    ELSE IF s1 = <<>> THEN TRUE
    ELSE IF Head(s1) # Head(s2) THEN Head(s1) < Head(s2)
    ELSE StrLess(Tail(s1), Tail(s2))

\* strings.Join(parts, sep)
RECURSIVE Join(_, _)
Join(parts, sep) ==
    IF parts = <<>> THEN <<>>
    ELSE IF Len(parts) = 1 THEN parts[1]
    ELSE parts[1] \o sep \o Join(Tail(parts), sep)

\* strings.Index(s, r) for a one-rune needle, 1-based; 0 when absent.
IndexOf(s, r) ==
    IF \E k \in 1..Len(s) : s[k] = r
    THEN CHOOSE k \in 1..Len(s) : s[k] = r /\ \A m \in 1..(k - 1) : s[m] # r
    ELSE 0

\* strings.LastIndex(s, r), 1-based; 0 when absent.
LastIndexOf(s, r) ==
    IF \E k \in 1..Len(s) : s[k] = r
    THEN CHOOSE k \in 1..Len(s) : s[k] = r /\ \A m \in (k + 1)..Len(s) : s[m] # r
    ELSE 0

RECURSIVE TrimLeft(_)
TrimLeft(s) == IF s # <<>> /\ IsSpace(Head(s)) THEN TrimLeft(Tail(s)) ELSE s

RECURSIVE TrimRight(_)
TrimRight(s) ==
    IF s # <<>> /\ IsSpace(s[Len(s)]) THEN TrimRight(SubSeq(s, 1, Len(s) - 1)) ELSE s

\* strings.TrimSpace
TrimSpace(s) == TrimRight(TrimLeft(s))

\* strings.Split(s, sep) for a one-rune separator: always at least one piece.
RECURSIVE Split(_, _)
Split(s, sep) ==
    LET k == IndexOf(s, sep) IN
    IF k = 0 THEN <<s>>
    ELSE <<SubSeq(s, 1, k - 1)>> \o Split(SubSeq(s, k + 1, Len(s)), sep)

\* sort.Strings: insertion into ascending order.
RECURSIVE InsertString(_, _)
InsertString(e, sorted) ==
    IF sorted = <<>> THEN <<e>>
    ELSE IF StrLess(e, Head(sorted)) THEN <<e>> \o sorted
    ELSE <<Head(sorted)>> \o InsertString(e, Tail(sorted))

RECURSIVE SortStrings(_)
SortStrings(seq) ==
    IF seq = <<>> THEN <<>>
    ELSE InsertString(seq[Len(seq)], SortStrings(SubSeq(seq, 1, Len(seq) - 1)))

\* ------------------------------------------------------------------------
\* Terms, literals, clauses
\* ------------------------------------------------------------------------

NewVariable(name) == [k |-> "var", name |-> name, args |-> <<>>]
NewConstant(name) == [k |-> "const", name |-> name, args |-> <<>>]
NewFunction(name, args) == [k |-> "fn", name |-> name, args |-> args]

IsVariable(t) == t.k = "var"

\* Term.String()
RECURSIVE TermString(_)
TermString(t) ==
    IF t.k = "fn"
    THEN t.name \o <<Ch.lp>>
         \o Join([n \in 1..Len(t.args) |-> TermString(t.args[n])], <<Ch.comma, Ch.sp>>)
         \o <<Ch.rp>>
    ELSE t.name

\* Term.ContainsVar(name)
RECURSIVE ContainsVar(_, _)
ContainsVar(t, name) ==
    CASE t.k = "var" -> t.name = name
      [] t.k = "const" -> FALSE
      [] t.k = "fn" -> \E n \in 1..Len(t.args) : ContainsVar(t.args[n], name)

NewLiteral(predicate, args, negated) ==
    [Predicate |-> predicate, Args |-> args, Negated |-> negated]

\* Literal.String()
LiteralString(l) ==
    (IF l.Negated THEN <<Ch.neg>> ELSE <<>>) \o l.Predicate \o <<Ch.lp>>
    \o Join([n \in 1..Len(l.Args) |-> TermString(l.Args[n])], <<Ch.comma, Ch.sp>>)
    \o <<Ch.rp>>

\* Literal.Negate()
Negate(l) == NewLiteral(l.Predicate, l.Args, ~l.Negated)

\* Literal.Equal(other)
LiteralEqual(l, other) ==
    /\ l.Predicate = other.Predicate
    /\ l.Negated = other.Negated
    /\ Len(l.Args) = Len(other.Args)
    /\ \A n \in 1..Len(l.Args) : TermString(l.Args[n]) = TermString(other.Args[n])

\* removeDuplicateLiterals: the first literal of every string form is kept.
RECURSIVE removeDuplicateLiterals(_)
removeDuplicateLiterals(literals) ==
    IF literals = <<>> THEN <<>>
    ELSE LET init == SubSeq(literals, 1, Len(literals) - 1)
             last == literals[Len(literals)]
         IN IF \E n \in 1..Len(init) : LiteralString(init[n]) = LiteralString(last)
            THEN removeDuplicateLiterals(init)
            ELSE Append(removeDuplicateLiterals(init), last)

\* The sort.Slice call of NewClause: ascending order of Literal.String();
\* the string forms are pairwise different after removeDuplicateLiterals.
RECURSIVE InsertLiteral(_, _)
InsertLiteral(e, sorted) ==
    IF sorted = <<>> THEN <<e>>
    ELSE IF StrLess(LiteralString(e), LiteralString(Head(sorted))) THEN <<e>> \o sorted
    ELSE <<Head(sorted)>> \o InsertLiteral(e, Tail(sorted))

RECURSIVE SortLiterals(_)
SortLiterals(seq) ==
    IF seq = <<>> THEN <<>>
    ELSE InsertLiteral(seq[Len(seq)], SortLiterals(SubSeq(seq, 1, Len(seq) - 1)))

\* NewClause that drops the parents it is given.
NewClauseNoParents(id, literals, origin, parents, rule) ==
    [ID |-> id,
     Literals |-> SortLiterals(removeDuplicateLiterals(literals)),
     Origin |-> origin, Parents |-> <<0, 0>>, Rule |-> rule]

\* NewClause without the sort.Slice call.
NewClauseUnsorted(id, literals, origin, parents, rule) ==
    [ID |-> id,
     Literals |-> removeDuplicateLiterals(literals),
     Origin |-> origin, Parents |-> parents, Rule |-> rule]

\* NewClause: parents are references to clause objects (0 is nil).
NewClause(id, literals, origin, parents, rule) ==
    [ID |-> id,
     Literals |-> SortLiterals(removeDuplicateLiterals(literals)),
     Origin |-> origin, Parents |-> parents, Rule |-> rule]

\* Clause.String()
ClauseString(c) ==
    IF Len(c.Literals) = 0 THEN <<Ch.box>>
    ELSE Join([n \in 1..Len(c.Literals) |-> LiteralString(c.Literals[n])],
              <<Ch.sp, Ch.or, Ch.sp>>)

\* Clause.IsEmpty()
IsEmpty(c) == Len(c.Literals) = 0

\* Clause.Equal(other)
ClauseEqual(c, other) ==
    /\ Len(c.Literals) = Len(other.Literals)
    /\ \A n \in 1..Len(c.Literals) : LiteralEqual(c.Literals[n], other.Literals[n])

\* ------------------------------------------------------------------------
\* Parser
\* ------------------------------------------------------------------------

\* isSingleLowerLetter for the letters u to z only.
isSingleLowerLetterLate(s) == Len(s) = 1 /\ s[1] \in 117..122

\* isSingleLowerLetter
isSingleLowerLetter(s) == Len(s) = 1 /\ IsLowerLetter(s[1])

RECURSIVE parseArgsFrom(_, _, _, _, _)
RECURSIVE parseTerm(_)

\* The scanner loop with every comma taken as an argument boundary.
parseArgsFromFlat(runes, n, token, depth, args) ==
    IF n > Len(runes) THEN args
    ELSE LET r == runes[n]
             boundary == r = Ch.comma
             flushed == LET termStr == TrimSpace(token)
                        IN IF termStr # <<>> THEN Append(args, parseTerm(termStr))
                           ELSE args
             token1 == IF boundary THEN <<>> ELSE Append(token, r)
             args1 == IF boundary THEN flushed ELSE args
         IN IF n = Len(runes)
            THEN LET termStr == TrimSpace(token1)
                 IN IF termStr # <<>> THEN Append(args1, parseTerm(termStr))
                    ELSE args1
            ELSE parseArgsFrom(runes, n + 1, token1, depth, args1)

\* The scanner loop of parseArgs from rune n on, with the token, the depth
\* and the arguments collected so far.
parseArgsFrom(runes, n, token, depth, args) ==
    IF n > Len(runes) THEN args
    ELSE LET r == runes[n]
             boundary == r = Ch.comma /\ depth = 0
             flushed == LET termStr == TrimSpace(token)
                        IN IF termStr # <<>> THEN Append(args, parseTerm(termStr))
                           ELSE args
             token1 == IF boundary THEN <<>> ELSE Append(token, r)
             depth1 == CASE r = Ch.lp -> depth + 1
                         [] r = Ch.rp -> depth - 1
                         [] OTHER -> depth
             args1 == IF boundary THEN flushed ELSE args
         IN IF n = Len(runes)
            THEN LET termStr == TrimSpace(token1)
                 IN IF termStr # <<>> THEN Append(args1, parseTerm(termStr))
                    ELSE args1
            ELSE parseArgsFrom(runes, n + 1, token1, depth1, args1)

\* parseArgs
parseArgs(s) == parseArgsFrom(s, 1, <<>>, 0, <<>>)

\* parseTerm
parseTerm(str) ==
    LET s == TrimSpace(str)
        openIdx == IndexOf(s, Ch.lp)
    IN IF openIdx # 0 /\ s[Len(s)] = Ch.rp
       THEN NewFunction(SubSeq(s, 1, openIdx - 1),
                        parseArgs(SubSeq(s, openIdx + 1, Len(s) - 1)))
       ELSE IF isSingleLowerLetter(s) THEN NewVariable(s)
       ELSE NewConstant(s)

\* parseLiteralString: the name is empty when the piece is no literal.
parseLiteralString(str) ==
    LET s == TrimSpace(str)
        openIdx == IndexOf(s, Ch.lp)
        closeIdx == LastIndexOf(s, Ch.rp)
    IN IF openIdx = 0 THEN [name |-> <<>>, args |-> <<>>]
       ELSE IF closeIdx = 0 \/ closeIdx <= openIdx THEN [name |-> <<>>, args |-> <<>>]
       ELSE [name |-> SubSeq(s, 1, openIdx - 1),
             args |-> parseArgs(SubSeq(s, openIdx + 1, closeIdx - 1))]

\* The body of ParseInput's inner loop for one piece of a clause string:
\* the literals the piece contributes (none or one).
ParsePiece(piece) ==
    LET lStr == TrimSpace(piece)
        negated == lStr # <<>> /\ Head(lStr) = Ch.neg
        rest == IF negated THEN Tail(lStr) ELSE lStr
        parsed == parseLiteralString(rest)
    IN IF parsed.name # <<>> THEN <<NewLiteral(parsed.name, parsed.args, negated)>>
       ELSE <<>>

RECURSIVE ParsePieces(_)
ParsePieces(pieces) ==
    IF pieces = <<>> THEN <<>>
    ELSE ParsePiece(Head(pieces)) \o ParsePieces(Tail(pieces))

\* The literals ParseInput collects for one input string.
ParseClauseLiterals(s) == ParsePieces(Split(s, Ch.or))

\* ------------------------------------------------------------------------
\* Unification
\* ------------------------------------------------------------------------

\* A substitution (Theta) is a function from variable names to terms.
EmptyTheta == <<>>

\* The outcomes of a unify call: (theta, true), (nil, false), or a
\* recursion that never returns, which ends the Go process with a fatal
\* stack overflow.
UnifyOk(theta) == [st |-> "ok", theta |-> theta]
UnifyFail == [st |-> "fail", theta |-> EmptyTheta]
UnifyOverflow == [st |-> "overflow", theta |-> EmptyTheta]

RECURSIVE unifyTerms(_, _, _, _)
RECURSIVE unifyLists(_, _, _, _)
RECURSIVE unifyVar(_, _, _, _)

\* unify on two Terms.  frames is the set of unify calls that are active
\* on the call stack: unify is a pure function, so a call that is entered
\* again with the same arguments while it is active recurses for ever.
unifyTerms(x, y, theta, frames) ==
    IF <<x, y, theta>> \in frames THEN UnifyOverflow
    ELSE LET inner == frames \cup {<<x, y, theta>>} IN
         IF TermString(x) = TermString(y) THEN UnifyOk(theta)
         ELSE IF IsVariable(x) THEN unifyVar(x, y, theta, inner)
         ELSE IF IsVariable(y) THEN unifyVar(y, x, theta, inner)
         ELSE IF x.k = "fn" /\ y.k = "fn"
              THEN IF x.name # y.name \/ Len(x.args) # Len(y.args)
                   THEN UnifyFail
                   ELSE unifyLists(x.args, y.args, theta, inner)
         ELSE UnifyFail

unifyLists(xs, ys, theta, frames) ==
    IF Len(xs) = 0 /\ Len(ys) = 0 THEN UnifyOk(theta)
    ELSE IF Len(xs) = 0 \/ Len(ys) = 0 THEN UnifyFail
    ELSE LET head == unifyTerms(xs[1], ys[1], theta, frames)
         IN IF head.st # "ok" THEN head
            ELSE unifyLists(Tail(xs), Tail(ys), head.theta, frames)

\* unifyVar without step 4: the variable is left unbound.
unifyVarNoBinding(varTerm, x, theta, frames) ==
    LET varName == varTerm.name IN
    IF varName \in DOMAIN theta
    THEN unifyTerms(theta[varName], x, theta, frames)
    ELSE IF IsVariable(x) /\ x.name \in DOMAIN theta
    THEN unifyTerms(varTerm, theta[x.name], theta, frames)
    ELSE IF ContainsVar(x, varName) THEN UnifyFail
    ELSE UnifyOk(theta)

unifyVar(varTerm, x, theta, frames) ==
    LET varName == varTerm.name IN
    IF varName \in DOMAIN theta
    THEN unifyTerms(theta[varName], x, theta, frames)
    ELSE IF IsVariable(x) /\ x.name \in DOMAIN theta
    THEN unifyTerms(varTerm, theta[x.name], theta, frames)
    ELSE IF ContainsVar(x, varName) THEN UnifyFail
    ELSE UnifyOk((varName :> x) @@ theta)

\* unify on two Literals, from the substitution theta.
unify(xLit, yLit, theta) ==
    IF xLit.Predicate # yLit.Predicate \/ Len(xLit.Args) # Len(yLit.Args)
    THEN UnifyFail
    ELSE unifyLists(xLit.Args, yLit.Args, theta, {})

\* ------------------------------------------------------------------------
\* Substitution and resolution
\* ------------------------------------------------------------------------

RECURSIVE applyThetaToTermSafe(_, _, _, _)

\* The outcomes of an applyThetaToTermSafe call: a term, or a recursion that
\* never returns.
ApplyOk(t) == [st |-> "ok", term |-> t]
ApplyOverflow == [st |-> "overflow", term |-> <<>>]

\* applyThetaToTermSafe with the test of the visited set left out.
applyThetaToTermUnguarded(t, theta, visited, active) ==
    IF <<t, visited>> \in active THEN ApplyOverflow
    ELSE IF IsVariable(t)
    THEN IF t.name \in DOMAIN theta
         THEN applyThetaToTermSafe(theta[t.name], theta, visited \cup {t.name},
                                   active \cup {<<t, visited>>})
         ELSE ApplyOk(t)
    ELSE IF t.k = "fn"
    THEN LET outs == [n \in 1..Len(t.args) |->
                         applyThetaToTermSafe(t.args[n], theta, visited,
                                              active \cup {<<t, visited>>})]
         IN IF \E n \in 1..Len(outs) : outs[n].st = "overflow"
            THEN ApplyOverflow
            ELSE ApplyOk(NewFunction(t.name, [n \in 1..Len(outs) |-> outs[n].term]))
    ELSE ApplyOk(t)

\* applyThetaToTermSafe.  The map visited holds, at every call, the variables
\* being replaced by the calls above it: each is deleted when its call
\* returns (line 449).  active holds the arguments of the calls above this
\* one; a call with the arguments of a call above it never returns.
applyThetaToTermSafe(t, theta, visited, active) ==
    IF <<t, visited>> \in active THEN ApplyOverflow
    ELSE IF IsVariable(t)
    THEN IF t.name \in visited THEN ApplyOk(t)
         ELSE IF t.name \in DOMAIN theta
         THEN applyThetaToTermSafe(theta[t.name], theta, visited \cup {t.name},
                                   active \cup {<<t, visited>>})
         ELSE ApplyOk(t)
    ELSE IF t.k = "fn"
    THEN LET outs == [n \in 1..Len(t.args) |->
                         applyThetaToTermSafe(t.args[n], theta, visited,
                                              active \cup {<<t, visited>>})]
         IN IF \E n \in 1..Len(outs) : outs[n].st = "overflow"
            THEN ApplyOverflow
            ELSE ApplyOk(NewFunction(t.name, [n \in 1..Len(outs) |-> outs[n].term]))
    ELSE ApplyOk(t)

\* Lines 429-432: the outcomes of the calls on the arguments of lit.
substituteArgs(lit, theta) ==
    [n \in 1..Len(lit.Args) |-> applyThetaToTermSafe(lit.Args[n], theta, {}, {})]

\* substitute(lit, theta) returns.
substituteReturns(lit, theta) ==
    \A n \in 1..Len(lit.Args) : substituteArgs(lit, theta)[n].st = "ok"

\* substitute: the literal returned by a call that returns.
substitute(lit, theta) ==
    NewLiteral(lit.Predicate,
               [n \in 1..Len(lit.Args) |-> substituteArgs(lit, theta)[n].term],
               lit.Negated)

RECURSIVE SetToSeq(_)
SetToSeq(S) ==
    IF S = {} THEN <<>>
    ELSE LET e == CHOOSE v \in S : TRUE IN <<e>> \o SetToSeq(S \ {e})

\* formatTheta: the bindings "term/variable", sorted, joined by ", ".
formatTheta(theta) ==
    IF DOMAIN theta = {} THEN <<>>
    ELSE Join(SortStrings(SetToSeq({TermString(theta[v]) \o <<Ch.slash>> \o v :
                                       v \in DOMAIN theta})),
              <<Ch.comma, Ch.sp>>)

\* The Rule text of a resolvent: "Унификация " followed by the bindings, or
\* by "(пустая)" when there are none.
RuleText(theta) ==
    <<1059, 1085, 1080, 1092, 1080, 1082, 1072, 1094, 1080, 1103, 32>>
    \o (IF formatTheta(theta) = <<>>
        THEN <<40, 1087, 1091, 1089, 1090, 1072, 1103, 41>>
        ELSE formatTheta(theta))

\* The literals of the resolvent with the literal of c2 resolved upon left in.
ResolventLiteralsKeepSecond(c1, c2, i, j, theta) ==
    LET keep1 == SelectSeq([n \in 1..Len(c1.Literals) |-> n], LAMBDA n : n # i)
    IN [n \in 1..Len(keep1) |-> substitute(c1.Literals[keep1[n]], theta)]
       \o [n \in 1..Len(c2.Literals) |-> substitute(c2.Literals[n], theta)]

\* The literals of the resolvent of c1 and c2 on positions i and j.
ResolventLiterals(c1, c2, i, j, theta) ==
    LET keep1 == SelectSeq([n \in 1..Len(c1.Literals) |-> n], LAMBDA n : n # i)
        keep2 == SelectSeq([n \in 1..Len(c2.Literals) |-> n], LAMBDA n : n # j)
    IN [n \in 1..Len(keep1) |-> substitute(c1.Literals[keep1[n]], theta)]
       \o [n \in 1..Len(keep2) |-> substitute(c2.Literals[keep2[n]], theta)]

\* getNextID without the increment.
getNextIDStuck(counter) == [id |-> counter, clauseCounter |-> counter]

\* getNextID: the id handed out and the counter after the call.
getNextID(counter) == [id |-> counter, clauseCounter |-> counter + 1]

\* The loops of resolvePair from the k-th position pair on (i outer, j
\* inner), with the id counter and the resolvents built so far.  r1 and r2
\* are the references to c1 and c2.
RECURSIVE resolveFrom(_, _, _, _, _, _, _)
resolveFrom(c1, c2, r1, r2, k, counter, resolvents) ==
    LET n2 == Len(c2.Literals)
    IN IF k > Len(c1.Literals) * n2
       THEN [crashed |-> FALSE, resolvents |-> resolvents, clauseCounter |-> counter]
       ELSE LET i == ((k - 1) \div n2) + 1
                j == ((k - 1) % n2) + 1
                l1 == c1.Literals[i]
                l2 == c2.Literals[j]
            IN IF l1.Predicate = l2.Predicate /\ l1.Negated # l2.Negated
               THEN LET u == unify(l1, Negate(l2), EmptyTheta)
                    IN IF \/ u.st = "overflow"
                          \/ /\ u.st = "ok"
                             /\ \E n \in 1..Len(c1.Literals) :
                                   n # i /\ ~substituteReturns(c1.Literals[n], u.theta)
                          \/ /\ u.st = "ok"
                             /\ \E n \in 1..Len(c2.Literals) :
                                   n # j /\ ~substituteReturns(c2.Literals[n], u.theta)
                       THEN [crashed |-> TRUE, resolvents |-> resolvents,
                             clauseCounter |-> counter]
                       ELSE IF u.st = "ok"
                       THEN resolveFrom(c1, c2, r1, r2, k + 1,
                                getNextID(counter).clauseCounter,
                                Append(resolvents,
                                    NewClause(getNextID(counter).id,
                                              ResolventLiterals(c1, c2, i, j, u.theta),
                                              "res", <<r1, r2>>, RuleText(u.theta))))
                       ELSE resolveFrom(c1, c2, r1, r2, k + 1, counter, resolvents)
               ELSE resolveFrom(c1, c2, r1, r2, k + 1, counter, resolvents)

\* resolvePair: the resolvents of c1 and c2 in the order they are built, and
\* the id counter after the getNextID calls.
resolvePair(c1, c2, r1, r2, counter) == resolveFrom(c1, c2, r1, r2, 1, counter, <<>>)

\* ------------------------------------------------------------------------
\* Logs
\* ------------------------------------------------------------------------
\* A log text is the sequence of its lines (the text split at "\n"); an
\* entry of logLines is the sequence of the lines of its string, so that
\* strings.Join(logLines, "\n") is the concatenation of the entries.  The
\* names of the inputs hold no line break.

Blank == [t |-> "blank"]

RECURSIVE JoinLines(_)
JoinLines(entries) ==
    IF entries = <<>> THEN <<>> ELSE Head(entries) \o JoinLines(Tail(entries))

\* "  [%d] %s"
ClauseLine(c) == [t |-> "clause", id |-> c.ID, text |-> ClauseString(c)]

\* "\n<step name>\n    Клауза 1: [%d] %s\n    Клауза 2: [%d] %s\n
\*  Действие: %s\n    Результат: [%d] %s"
StepEntry(num, c1, c2, resolvent) ==
    << Blank,
       [t |-> "step", num |-> num,
        kind |-> IF IsEmpty(resolvent) THEN "contradiction" ELSE "resolution"],
       [t |-> "parent1", id |-> c1.ID, text |-> ClauseString(c1)],
       [t |-> "parent2", id |-> c2.ID, text |-> ClauseString(c2)],
       [t |-> "action", text |-> resolvent.Rule],
       [t |-> "resolvent", id |-> resolvent.ID, text |-> ClauseString(resolvent)] >>

\* "\nРезультат: ..." with one of the three result sentences.
ResultEntry(verdict) == << Blank, [t |-> "result", verdict |-> verdict] >>

\* The entries before the loop without the list of clauses.
FullLogHeadNoList(heap, active) ==
    << << [t |-> "fullHeader"], Blank >>, << [t |-> "count", n |-> Len(active)] >> >>

\* The entries Prove writes before the loop.
FullLogHead(heap, active) ==
    << << [t |-> "fullHeader"], Blank >>, << [t |-> "count", n |-> Len(active)] >> >>
    \o [n \in 1..Len(active) |-> << ClauseLine(heap[active[n]]) >>]

\* The collect closure of buildProofChain; st holds visited and chain.
RECURSIVE collect(_, _, _)
collect(heap, ref, st) ==
    IF ref = 0 \/ heap[ref].ID \in st.visited THEN st
    ELSE LET c == heap[ref]
             st1 == [st EXCEPT !.visited = @ \cup {c.ID}]
             st2 == IF c.Origin = "res"
                    THEN collect(heap, c.Parents[2], collect(heap, c.Parents[1], st1))
                    ELSE st1
         IN [st2 EXCEPT !.chain = Append(@, ref)]

\* collect with the clause appended before its parents are visited.
RECURSIVE collectParentsLast(_, _, _)
collectParentsLast(heap, ref, st) ==
    IF ref = 0 \/ heap[ref].ID \in st.visited THEN st
    ELSE LET c == heap[ref]
             st1 == [visited |-> st.visited \cup {c.ID}, chain |-> Append(st.chain, ref)]
         IN IF c.Origin = "res"
            THEN collectParentsLast(heap, c.Parents[2],
                     collectParentsLast(heap, c.Parents[1], st1))
            ELSE st1

buildProofChainParentsLast(heap, contradiction) ==
    collectParentsLast(heap, contradiction, [visited |-> {}, chain |-> <<>>]).chain

\* buildProofChain: references to the clauses of the chain.
buildProofChain(heap, contradiction) ==
    collect(heap, contradiction, [visited |-> {}, chain |-> <<>>]).chain

\* formatShortLog with the steps numbered from 0.
formatShortLogFromZero(heap, chain) ==
    LET inits == SelectSeq(chain, LAMBDA r : heap[r].Origin = "init")
        steps == SelectSeq(chain, LAMBDA r : heap[r].Origin = "res")
    IN JoinLines(
         << << [t |-> "shortHeader"], Blank >>, << [t |-> "usedInitial"] >> >>
         \o [n \in 1..Len(inits) |-> << ClauseLine(heap[inits[n]]) >>]
         \o << << Blank, [t |-> "stepsTitle"] >> >>
         \o [n \in 1..Len(steps) |->
               StepEntry(n - 1, heap[heap[steps[n]].Parents[1]],
                         heap[heap[steps[n]].Parents[2]], heap[steps[n]])]
         \o << ResultEntry("success") >>)

\* formatShortLog
formatShortLog(heap, chain) ==
    LET inits == SelectSeq(chain, LAMBDA r : heap[r].Origin = "init")
        steps == SelectSeq(chain, LAMBDA r : heap[r].Origin = "res")
    IN JoinLines(
         << << [t |-> "shortHeader"], Blank >>, << [t |-> "usedInitial"] >> >>
         \o [n \in 1..Len(inits) |-> << ClauseLine(heap[inits[n]]) >>]
         \o << << Blank, [t |-> "stepsTitle"] >> >>
         \o [n \in 1..Len(steps) |->
               StepEntry(n, heap[heap[steps[n]].Parents[1]],
                         heap[heap[steps[n]].Parents[2]], heap[steps[n]])]
         \o << ResultEntry("success") >>)

\* ------------------------------------------------------------------------
\* Inputs
\* ------------------------------------------------------------------------

\* "¬P(x) ∨ Q(x)"
StrImplication ==
    <<Ch.neg, Ch.P, Ch.lp, Ch.x, Ch.rp, Ch.sp, Ch.or, Ch.sp, Ch.Q, Ch.lp, Ch.x, Ch.rp>>
\* "P(A)"
StrFactP == <<Ch.P, Ch.lp, Ch.A, Ch.rp>>
\* "¬Q(A)"
StrGoalQ == <<Ch.neg, Ch.Q, Ch.lp, Ch.A, Ch.rp>>
\* "P(x) ∨ P(f(x))"
StrStep == <<Ch.P, Ch.lp, Ch.x, Ch.rp, Ch.sp, Ch.or, Ch.sp,
             Ch.P, Ch.lp, Ch.f, Ch.lp, Ch.x, Ch.rp, Ch.rp>>
\* "¬P(y) ∨ P(f(y))"
StrGrow == <<Ch.neg, Ch.P, Ch.lp, Ch.y, Ch.rp, Ch.sp, Ch.or, Ch.sp,
             Ch.P, Ch.lp, Ch.f, Ch.lp, Ch.y, Ch.rp, Ch.rp>>
\* "Q": no parenthesis, parsed to the clause without literals
StrNoLiteral == <<Ch.Q>>
\* "R(x, y, x)"
StrCyclicLeft == <<Ch.R, Ch.lp, Ch.x, Ch.comma, Ch.sp, Ch.y, Ch.comma, Ch.sp, Ch.x, Ch.rp>>
\* "¬R(f(y), f(x), y)"
StrCyclicRight ==
    <<Ch.neg, Ch.R, Ch.lp, Ch.f, Ch.lp, Ch.y, Ch.rp, Ch.comma, Ch.sp,
      Ch.f, Ch.lp, Ch.x, Ch.rp, Ch.comma, Ch.sp, Ch.y, Ch.rp>>

\* "¬P(y)"
StrDenyP == <<Ch.neg, Ch.P, Ch.lp, Ch.y, Ch.rp>>

\* The clause strings the input lists are drawn from.
ClausePool == {StrImplication, StrFactP, StrGoalQ, StrDenyP, StrStep, StrGrow,
               StrNoLiteral, StrCyclicLeft, StrCyclicRight}

\* The modus ponens input, with a constant.
ModusPonens == <<StrImplication, StrFactP, StrGoalQ>>

\* The lists of input strings given to ParseInput on a new engine.
Inputs == UNION {[1..n -> ClausePool] : n \in 0..MaxClauses} \cup {ModusPonens}

\* The lists given to ParseInput on an engine that was used before.
ReparseInputs == {<<>>, <<StrFactP, StrDenyP>>, ModusPonens}

\* ------------------------------------------------------------------------
\* State
\* ------------------------------------------------------------------------

VARIABLES
    phase,           \* "new", "parsed", "proving", "returned", "crashed"
    budget,          \* the iteration budget the engine was built with
    input,           \* the argument of the last ParseInput
    priorCounter,    \* clauseCounter when the last ParseInput was entered
    heap,            \* the Clause objects allocated since the last ParseInput,
                     \* in allocation order; a *Clause is an index into it
    clauses,         \* ResolutionEngine.clauses
    clauseCounter,   \* ResolutionEngine.clauseCounter
    activeClauses, processedPairs, logLines, stepCount, processedChecks,
    progress, currentPool, i, j,      \* the locals of Prove
    result,          \* the ProofResult returned by Prove
    exit,            \* the return statement Prove left by
    emptyBuilt,      \* empty resolvents built by resolvePair during the run
    resolveCalls,    \* the ids of (c1, c2) of the resolvePair calls of the run
    uLit1, uLit2, uOut,  \* a unify call on two literals and its outcome
    sLit, sTheta,        \* the arguments of a substitute call,
    sOut, sAgain,        \* its outcome, and the outcome of substitute on its
                         \* result with the same substitution
    callbackCounter,     \* window._callbackCounter
    pendingCallbacks,    \* the keys of window._pendingCallbacks
    promises,            \* per callback id, the calls of the resolve of its promise
    evals,               \* per callback id, the window._resolveCallback calls made
    requests,            \* per callback id, the goroutine of the handler
    dispatchQueue,       \* the functions given to w.Dispatch and not yet run
    cacheText, cacheShortLog, cacheExplanation,
    cacheFor             \* the texts cacheShortLog and cacheExplanation were
                         \* computed for

engineVars == <<phase, budget, input, priorCounter, heap, clauses, clauseCounter, activeClauses,
                processedPairs, logLines, stepCount, processedChecks, progress,
                currentPool, i, j, result, exit, emptyBuilt, resolveCalls>>
unifyVars == <<uLit1, uLit2, uOut>>
substVars == <<sLit, sTheta, sOut, sAgain>>
webVars == <<callbackCounter, pendingCallbacks, promises, evals, requests, dispatchQueue,
             cacheText, cacheShortLog, cacheExplanation, cacheFor>>
vars == <<engineVars, unifyVars, substVars, webVars>>

NoResult == [Success |-> FALSE, FullLog |-> <<>>, ShortLog |-> <<>>]
NoLiteral == NewLiteral(<<>>, <<>>, FALSE)
NoCall == [st |-> "none", theta |-> EmptyTheta]

\* The locals of Prove while Prove is not running.
ProveIdle ==
    /\ activeClauses = <<>> /\ processedPairs = {} /\ logLines = <<>>
    /\ stepCount = 1 /\ processedChecks = 0 /\ progress = FALSE
    /\ currentPool = <<>> /\ i = 0 /\ j = 0
    /\ result = NoResult /\ exit = "none" /\ emptyBuilt = 0 /\ resolveCalls = <<>>

\* The same of the next state.
ProveReset ==
    /\ activeClauses' = <<>> /\ processedPairs' = {} /\ logLines' = <<>>
    /\ stepCount' = 1 /\ processedChecks' = 0 /\ progress' = FALSE
    /\ currentPool' = <<>> /\ i' = 0 /\ j' = 0
    /\ result' = NoResult /\ exit' = "none" /\ emptyBuilt' = 0 /\ resolveCalls' = <<>>

\* NewResolutionEngine
NewEngine ==
    /\ phase = "new" /\ input = <<>> /\ priorCounter = 0
    /\ heap = <<>> /\ clauses = <<>> /\ clauseCounter = 1
    /\ ProveIdle

UnifyIdle == uLit1 = NoLiteral /\ uLit2 = NoLiteral /\ uOut = NoCall

SubstIdle == sLit = NoLiteral /\ sTheta = EmptyTheta /\ sOut = NoCall /\ sAgain = NoCall

\* The page and the handler before the first request: lines 5-6 and 104-108
\* of script.js.
WebIdle ==
    /\ callbackCounter = 0 /\ pendingCallbacks = {} /\ promises = <<>> /\ evals = <<>>
    /\ requests = <<>> /\ dispatchQueue = <<>>
    /\ cacheText = <<>> /\ cacheShortLog = <<>> /\ cacheExplanation = <<>>
    /\ cacheFor = <<<<>>, <<>>>>

Init == NewEngine /\ UnifyIdle /\ SubstIdle /\ WebIdle /\ budget = max_iterations

\* ------------------------------------------------------------------------
\* ParseInput
\* ------------------------------------------------------------------------

\* The loop of ParseInput from the n-th string on; st holds the clauses
\* built so far and clauseCounter.
RECURSIVE parseFrom(_, _, _)
parseFrom(strings, n, st) ==
    IF n > Len(strings) THEN st
    ELSE parseFrom(strings, n + 1,
             [clauses |-> Append(st.clauses,
                              NewClause(getNextID(st.clauseCounter).id,
                                        ParseClauseLiterals(strings[n]),
                                        "init", <<0, 0>>, <<>>)),
              clauseCounter |-> getNextID(st.clauseCounter).clauseCounter])

\* ParseInput without line 310: the ids go on from the counter of the engine.
ParsedKeepCounter(strings) ==
    parseFrom(strings, 1, [clauses |-> <<>>, clauseCounter |-> clauseCounter])

\* The engine after lines 309-337.
Parsed(strings) == parseFrom(strings, 1, [clauses |-> <<>>, clauseCounter |-> 1])

ParseInput(strings) ==
    /\ phase \in {"new", "parsed", "returned"}
    /\ phase' = "parsed"
    /\ input' = strings
    /\ priorCounter' = clauseCounter
    /\ heap' = Parsed(strings).clauses
    /\ clauses' = [n \in 1..Len(strings) |-> n]
    /\ clauseCounter' = Parsed(strings).clauseCounter
    /\ ProveReset
    /\ UNCHANGED <<budget, unifyVars, substVars, webVars>>

ParseInputNew == \E strings \in Inputs : phase = "new" /\ ParseInput(strings)

ParseInputAgain == \E strings \in ReparseInputs : phase # "new" /\ ParseInput(strings)

\* ------------------------------------------------------------------------
\* Prove
\* ------------------------------------------------------------------------

\* The loops without the last clause of the pool as second clause.
NextPairShort(a, b, n) ==
    IF b < n - 1 THEN <<a, b>>
    ELSE IF a + 2 < n - 1 THEN <<a + 1, a + 2>>
    ELSE <<n, n>>

\* The loop variables at the next (i, j) with i < j < n from (a, b) on, or
\* (n, n) when the outer loop is over.
NextPair(a, b, n) ==
    IF b < n THEN <<a, b>>
    ELSE IF a + 2 < n THEN <<a + 1, a + 2>>
    ELSE <<n, n>>

\* Lines 590-607: the set-up of Prove and the start of the first pass.
ProveBegin ==
    /\ phase \in {"new", "parsed"}
    /\ phase' = "proving"
    /\ activeClauses' = clauses
    /\ processedPairs' = {}
    /\ logLines' = FullLogHead(heap, clauses)
    /\ stepCount' = 1
    /\ processedChecks' = 0
    /\ progress' = FALSE
    /\ currentPool' = clauses
    /\ i' = NextPair(0, 1, Len(clauses))[1]
    /\ j' = NextPair(0, 1, Len(clauses))[2]
    /\ UNCHANGED <<budget, input, priorCounter, heap, clauses, clauseCounter, result, exit,
                   emptyBuilt,
                   resolveCalls, unifyVars, substVars, webVars>>

\* The budget test one inspection late.
OverBudgetLate(checks) == checks > budget + 1

\* Line 612: the test of the budget on the incremented counter.
OverBudget(checks) == checks > budget

\* Line 613: the ProofResult of the budget exit; ShortLog is "TIMEOUT".
BudgetResult(log) ==
    [Success |-> FALSE, FullLog |-> JoinLines(log), ShortLog |-> << [t |-> "timeout"] >>]

\* The result of the no-progress exit with an empty ShortLog.
SaturatedResultNoShortLog(log) ==
    [Success |-> FALSE, FullLog |-> JoinLines(log), ShortLog |-> <<>>]

\* Line 671: the ProofResult of the no-progress exit.
SaturatedResult(log) ==
    [Success |-> FALSE, FullLog |-> JoinLines(log), ShortLog |-> JoinLines(log)]

\* Lines 660-662: the ProofResult of the success exit.
SuccessResult(log, hp, contradiction) ==
    [Success |-> TRUE, FullLog |-> JoinLines(log),
     ShortLog |-> formatShortLog(hp, buildProofChain(hp, contradiction))]

InLoop == phase = "proving" /\ i < Len(currentPool) /\ j < Len(currentPool)

\* pairID with the length of the pass's pool in the key.
PairIDPerPass ==
    LET id1 == heap[currentPool[i + 1]].ID
        id2 == heap[currentPool[j + 1]].ID
    IN IF id1 > id2 THEN <<id2, id1, Len(currentPool)>>
       ELSE <<id1, id2, Len(currentPool)>>

\* pairID of the pair under inspection
PairID ==
    LET id1 == heap[currentPool[i + 1]].ID
        id2 == heap[currentPool[j + 1]].ID
    IN IF id1 > id2 THEN <<id2, id1>> ELSE <<id1, id2>>

\* Lines 611-614: the budget is spent.
BudgetExit ==
    /\ InLoop
    /\ OverBudget(processedChecks + 1)
    /\ processedChecks' = processedChecks + 1
    /\ result' = BudgetResult(logLines)
    /\ exit' = "budget"
    /\ phase' = "returned"
    /\ UNCHANGED <<budget, input, priorCounter, heap, clauses, clauseCounter, activeClauses,
                   processedPairs,
                   logLines, stepCount, progress, currentPool, i, j, emptyBuilt,
                   resolveCalls, unifyVars, substVars, webVars>>

\* Lines 611-625: the pair was processed in an earlier pass.
SkipPair ==
    /\ InLoop
    /\ ~OverBudget(processedChecks + 1)
    /\ PairID \in processedPairs
    /\ processedChecks' = processedChecks + 1
    /\ i' = NextPair(i, j + 1, Len(currentPool))[1]
    /\ j' = NextPair(i, j + 1, Len(currentPool))[2]
    /\ UNCHANGED <<phase, budget, input, priorCounter, heap, clauses, clauseCounter,
                   activeClauses,
                   processedPairs, logLines, stepCount, progress, currentPool, result,
                   exit, emptyBuilt, resolveCalls, unifyVars, substVars, webVars>>

RECURSIVE absorb(_, _, _, _, _, _)

\* The loop over the resolvents with the duplicate test against the pool of
\* the pass instead of the active list.
absorbAgainstPool(hp, refs, k, r1, r2, st) ==
    IF k > Len(refs) \/ st.found # 0 THEN st
    ELSE LET resolvent == hp[refs[k]]
             isDuplicate == \E n \in 1..Len(currentPool) :
                               ClauseEqual(resolvent, hp[currentPool[n]])
         IN IF isDuplicate THEN absorb(hp, refs, k + 1, r1, r2, st)
            ELSE absorb(hp, refs, k + 1, r1, r2,
                     [active |-> Append(st.active, refs[k]),
                      progress |-> TRUE,
                      log |-> Append(st.log,
                                  StepEntry(st.stepCount, hp[r1], hp[r2], resolvent))
                              \o (IF IsEmpty(resolvent)
                                  THEN << ResultEntry("proved") >> ELSE <<>>),
                      stepCount |-> st.stepCount + 1,
                      found |-> IF IsEmpty(resolvent) THEN refs[k] ELSE 0])

\* Lines 630-665: the resolvents from the k-th on, against the active list.
\* st holds active, log, stepCount, progress and found (the contradiction).
absorb(hp, refs, k, r1, r2, st) ==
    IF k > Len(refs) \/ st.found # 0 THEN st
    ELSE LET resolvent == hp[refs[k]]
             isDuplicate == \E n \in 1..Len(st.active) :
                               ClauseEqual(resolvent, hp[st.active[n]])
         IN IF isDuplicate THEN absorb(hp, refs, k + 1, r1, r2, st)
            ELSE absorb(hp, refs, k + 1, r1, r2,
                     [active |-> Append(st.active, refs[k]),
                      progress |-> TRUE,
                      log |-> Append(st.log,
                                  StepEntry(st.stepCount, hp[r1], hp[r2], resolvent))
                              \o (IF IsEmpty(resolvent)
                                  THEN << ResultEntry("proved") >> ELSE <<>>),
                      stepCount |-> st.stepCount + 1,
                      found |-> IF IsEmpty(resolvent) THEN refs[k] ELSE 0])

\* Lines 611-665: a pair is resolved.
ResolveStep ==
    /\ InLoop
    /\ ~OverBudget(processedChecks + 1)
    /\ PairID \notin processedPairs
    /\ LET r1 == currentPool[i + 1]
           r2 == currentPool[j + 1]
           rp == resolvePair(heap[r1], heap[r2], r1, r2, clauseCounter)
           hp == heap \o rp.resolvents
           refs == [n \in 1..Len(rp.resolvents) |-> Len(heap) + n]
           st == absorb(hp, refs, 1, r1, r2,
                        [active |-> activeClauses, progress |-> progress,
                         log |-> logLines, stepCount |-> stepCount, found |-> 0])
       IN /\ processedChecks' = processedChecks + 1
          /\ processedPairs' = processedPairs \cup {PairID}
          /\ resolveCalls' = Append(resolveCalls, <<heap[r1].ID, heap[r2].ID>>)
          /\ IF rp.crashed
             THEN /\ phase' = "crashed"
                  /\ UNCHANGED <<heap, clauseCounter, activeClauses, logLines, stepCount,
                                 progress, i, j, result, exit, emptyBuilt>>
             ELSE /\ heap' = hp
                  /\ clauseCounter' = rp.clauseCounter
                  /\ emptyBuilt' = emptyBuilt
                        + Cardinality({n \in 1..Len(refs) : IsEmpty(hp[refs[n]])})
                  /\ activeClauses' = st.active
                  /\ logLines' = st.log
                  /\ stepCount' = st.stepCount
                  /\ progress' = st.progress
                  /\ IF st.found # 0
                     THEN /\ result' = SuccessResult(st.log, hp, st.found)
                          /\ exit' = "success"
                          /\ phase' = "returned"
                          /\ UNCHANGED <<i, j>>
                     ELSE /\ i' = NextPair(i, j + 1, Len(currentPool))[1]
                          /\ j' = NextPair(i, j + 1, Len(currentPool))[2]
                          /\ UNCHANGED <<phase, result, exit>>
    /\ UNCHANGED <<budget, input, priorCounter, clauses, currentPool, unifyVars, substVars, webVars>>

\* Lines 604-607 and 669-672: a pass is over.
PassEnd ==
    /\ phase = "proving"
    /\ ~InLoop
    /\ IF ~progress
       THEN /\ logLines' = Append(logLines, ResultEntry("notFound"))
            /\ result' = SaturatedResult(logLines')
            /\ exit' = "saturated"
            /\ phase' = "returned"
            /\ UNCHANGED <<progress, currentPool, i, j>>
       ELSE /\ progress' = FALSE
            /\ currentPool' = activeClauses
            /\ i' = NextPair(0, 1, Len(activeClauses))[1]
            /\ j' = NextPair(0, 1, Len(activeClauses))[2]
            /\ UNCHANGED <<phase, logLines, result, exit>>
    /\ UNCHANGED <<budget, input, priorCounter, heap, clauses, clauseCounter, activeClauses,
                   processedPairs,
                   stepCount, processedChecks, emptyBuilt, resolveCalls, unifyVars, substVars, webVars>>

Next ==
    \/ ParseInputNew
    \/ ParseInputAgain
    \/ ProveBegin
    \/ BudgetExit
    \/ SkipPair
    \/ ResolveStep
    \/ PassEnd

Spec == Init /\ [][Next]_vars

\* ------------------------------------------------------------------------
\* unify on its own: every pair of literals over a pool of terms
\* ------------------------------------------------------------------------

\* Largest number of arguments of the literals.
UnifyArity == 3
SubstArity == 2
MaxRequests == 3
WebBudget == 3

VarX == NewVariable(<<Ch.x>>)
VarY == NewVariable(<<Ch.y>>)

\* x, y, A, f(x), f(y)
UnifyTerms == {VarX, VarY, NewConstant(<<Ch.A>>),
               NewFunction(<<Ch.f>>, <<VarX>>), NewFunction(<<Ch.f>>, <<VarY>>)}

UnifyLiterals ==
    {NewLiteral(<<Ch.P>>, args, FALSE) :
        args \in UNION {[1..n -> UnifyTerms] : n \in 1..UnifyArity}}

InitUnify ==
    /\ NewEngine
    /\ budget = max_iterations
    /\ uLit1 \in UnifyLiterals
    /\ uLit2 \in UnifyLiterals
    /\ uOut = NoCall
    /\ SubstIdle
    /\ WebIdle

\* unify(uLit1, uLit2, nil)
UnifyCall ==
    /\ uOut = NoCall
    /\ uOut' = unify(uLit1, uLit2, EmptyTheta)
    /\ UNCHANGED <<engineVars, uLit1, uLit2, substVars, webVars>>

UnifySpec == InitUnify /\ [][UnifyCall]_vars

\* ------------------------------------------------------------------------
\* substitute on its own: every literal over the pool of terms, under every
\* substitution of x and y by terms of the pool, cyclic ones included
\* ------------------------------------------------------------------------

\* The literals P(s) and P(s, t).
SubstLiterals ==
    {NewLiteral(<<Ch.P>>, args, FALSE) :
        args \in UNION {[1..n -> UnifyTerms] : n \in 1..SubstArity}}

\* The substitutions of some of x and y by terms of the pool.
SubstThetas ==
    UNION {[D -> UnifyTerms] : D \in SUBSET {<<Ch.x>>, <<Ch.y>>}}

\* The outcome of substitute(lit, theta).
SubstOutcome(lit, theta) ==
    IF substituteReturns(lit, theta)
    THEN [st |-> "ok", lit |-> substitute(lit, theta)]
    ELSE [st |-> "overflow", lit |-> NoLiteral]

InitSubst ==
    /\ NewEngine
    /\ budget = max_iterations
    /\ UnifyIdle
    /\ sLit \in SubstLiterals
    /\ sTheta \in SubstThetas
    /\ sOut = NoCall
    /\ sAgain = NoCall
    /\ WebIdle

\* substitute(sLit, sTheta)
SubstituteCall ==
    /\ sOut = NoCall
    /\ sOut' = SubstOutcome(sLit, sTheta)
    /\ UNCHANGED <<engineVars, unifyVars, sLit, sTheta, sAgain, webVars>>

\* substitute(r, sTheta) on the literal r the first call returned
SubstituteAgain ==
    /\ sOut # NoCall
    /\ sOut.st = "ok"
    /\ sAgain = NoCall
    /\ sAgain' = SubstOutcome(sOut.lit, sTheta)
    /\ UNCHANGED <<engineVars, unifyVars, sLit, sTheta, sOut, webVars>>

NextSubst == SubstituteCall \/ SubstituteAgain

SubstSpec == InitSubst /\ [][NextSubst]_vars

\* ------------------------------------------------------------------------
\* The page and the solve handler (src/assets/script.js)
\* ------------------------------------------------------------------------

\* The requests made of the page: the text "a" with the log shown and the
\* text "b" without it.
Submissions == {<<<<Ch.a>>, TRUE>>, <<<<Ch.b>>, FALSE>>}

\* The clause lists the language model answers the parsing prompt with: none,
\* a pair unify does not return on, and a list that outlasts the budget of
\* the handler's engine.
ClauseLists == {<<>>, <<StrCyclicLeft, StrCyclicRight>>, <<StrImplication, StrFactP>>}

\* LLMQuery: ("", err) or (content, nil).
LLMError == [err |-> TRUE, content |-> <<>>]
LLMContent(content) == [err |-> FALSE, content |-> content]

\* The contents returned for the parsing prompt: a text that is not a JSON
\* list of strings, or a JSON list of clause strings.
NotJSON == [json |-> FALSE, list |-> <<>>]
JSONList(list) == [json |-> TRUE, list |-> list]
ParsingReplies ==
    {LLMError, LLMContent(NotJSON)} \cup {LLMContent(JSONList(l)) : l \in ClauseLists}

\* The content returned for the explanation prompt: some text.
Explanation == << [t |-> "explanation"] >>
ExplanationReplies == {LLMError, LLMContent(Explanation)}

\* ParseStringList
ParseStringList(content) ==
    IF content.json THEN [err |-> FALSE, list |-> content.list]
    ELSE [err |-> TRUE, list |-> <<>>]

\* "❌ Ошибка: " + errMsg
ErrorText(errMsg) == << [t |-> "error", msg |-> errMsg] >>

\* "(Не удалось сгенерировать объяснение: " + err.Error() + ")"
ExplanationFailed == << [t |-> "explanationFailed"] >>

\* finalResult: with showLog the two titles, the short log and the
\* explanation; without it the explanation.
FinalResult(showLog, shortLog, explanation) ==
    IF showLog
    THEN << [t |-> "logTitle"] >> \o shortLog
         \o << Blank, [t |-> "explanationTitle"] >> \o explanation
    ELSE explanation

\* The goroutine of a request at its start.
NewRequest(text, showLog) ==
    [pc |-> "start", text |-> text, showLog |-> showLog, parsed |-> <<>>,
     shortLog |-> <<>>, explanation |-> <<>>, hitFor |-> <<>>]

\* The goroutine r is at the position pc.  The engine of a request is local
\* to its goroutine, so its steps are taken as one block: the other
\* goroutines and the page move while no engine is running (phase = "new").
\* A process that died in the engine moves no more.
At(r, pc) == r \in 1..Len(requests) /\ requests[r].pc = pc /\ phase = "new"

\* w.Dispatch of the window._resolveCallback call that ends the goroutine r,
\* whose locals are gone with it.  hitFor keeps the texts the short log and
\* the explanation of an answer from the cache were computed for.
Finish(r, value, hitFor) ==
    /\ requests' = [requests EXCEPT ![r].pc = "done", ![r].parsed = <<>>,
                                    ![r].shortLog = <<>>, ![r].explanation = <<>>,
                                    ![r].hitFor = hitFor]
    /\ dispatchQueue' = Append(dispatchQueue, <<r, value>>)

InitWeb == NewEngine /\ UnifyIdle /\ SubstIdle /\ WebIdle /\ budget = WebBudget

\* solveProblem (lines 17-23) and the start of the goroutine (lines 112-114).
SolveProblem ==
    \E submission \in Submissions :
        /\ phase = "new"
        /\ callbackCounter < MaxRequests
        /\ callbackCounter' = callbackCounter + 1
        /\ pendingCallbacks' = pendingCallbacks \cup {callbackCounter + 1}
        /\ promises' = Append(promises, 0)
        /\ evals' = Append(evals, 0)
        /\ requests' = Append(requests, NewRequest(submission[1], submission[2]))
        /\ UNCHANGED <<engineVars, unifyVars, substVars, dispatchQueue,
                       cacheText, cacheShortLog, cacheExplanation, cacheFor>>

\* Line 124: the test of the cache.
CheckCache ==
    \E r \in 1..MaxRequests :
        /\ At(r, "start")
        /\ requests' = [requests EXCEPT ![r].pc =
               IF /\ cacheText = requests[r].text
                  /\ cacheShortLog # <<>>
                  /\ cacheExplanation # <<>>
               THEN "hit" ELSE "parse"]
        /\ UNCHANGED <<engineVars, unifyVars, substVars, callbackCounter,
                       pendingCallbacks, promises, evals, dispatchQueue,
                       cacheText, cacheShortLog, cacheExplanation, cacheFor>>

\* Lines 125-138: the answer from the cache.
CacheHit ==
    \E r \in 1..MaxRequests :
        /\ At(r, "hit")
        /\ Finish(r,
                  FinalResult(requests[r].showLog, cacheShortLog, cacheExplanation),
                  cacheFor)
        /\ UNCHANGED <<engineVars, unifyVars, substVars, callbackCounter,
                       pendingCallbacks, promises, evals,
                       cacheText, cacheShortLog, cacheExplanation, cacheFor>>

\* Lines 141-158: the parsing prompt and its three errors.
LLMParse ==
    \E r \in 1..MaxRequests, reply \in ParsingReplies :
        /\ At(r, "parse")
        /\ IF reply.err
           THEN Finish(r, ErrorText("llm"), <<>>)
           ELSE IF ParseStringList(reply.content).err
           THEN Finish(r, ErrorText("json"), <<>>)
           ELSE IF Len(ParseStringList(reply.content).list) = 0
           THEN Finish(r, ErrorText("empty"), <<>>)
           ELSE /\ requests' = [requests EXCEPT
                                   ![r].pc = "engine",
                                   ![r].parsed = ParseStringList(reply.content).list]
                /\ UNCHANGED dispatchQueue
        /\ UNCHANGED <<engineVars, unifyVars, substVars, callbackCounter,
                       pendingCallbacks, promises, evals,
                       cacheText, cacheShortLog, cacheExplanation, cacheFor>>

\* Lines 161-162: NewResolutionEngine and ParseInput.
EngineParse ==
    \E r \in 1..MaxRequests :
        /\ At(r, "engine")
        /\ ParseInput(requests[r].parsed)

\* Line 163: Prove is called on the engine that parsed the list.
EngineProve == phase = "parsed" /\ ProveBegin

\* Lines 163-164: Prove has returned; the engine is dropped.
EngineDone ==
    \E r \in 1..MaxRequests :
        /\ r \in 1..Len(requests)
        /\ requests[r].pc = "engine"
        /\ phase = "returned"
        /\ input = requests[r].parsed
        /\ requests' = [requests EXCEPT ![r].pc = "explain", ![r].parsed = <<>>,
                                        ![r].shortLog = result.ShortLog]
        /\ phase' = "new" /\ input' = <<>> /\ priorCounter' = 0
        /\ heap' = <<>> /\ clauses' = <<>> /\ clauseCounter' = 1
        /\ ProveReset
        /\ UNCHANGED <<budget, unifyVars, substVars, callbackCounter,
                       pendingCallbacks, promises, evals, dispatchQueue,
                       cacheText, cacheShortLog, cacheExplanation, cacheFor>>

\* Lines 168-173: the explanation prompt.
LLMExplain ==
    \E r \in 1..MaxRequests :
        \E reply \in ExplanationReplies :
            /\ At(r, "explain")
            /\ requests' = [requests EXCEPT
                   ![r].pc = "storeText",
                   ![r].explanation =
                       IF reply.err THEN ExplanationFailed ELSE reply.content]
            /\ UNCHANGED <<engineVars, unifyVars, substVars, callbackCounter,
                           pendingCallbacks, promises, evals, dispatchQueue,
                           cacheText, cacheShortLog, cacheExplanation, cacheFor>>

\* Line 176
StoreText ==
    \E r \in 1..MaxRequests :
        /\ At(r, "storeText")
        /\ cacheText' = requests[r].text
        /\ requests' = [requests EXCEPT ![r].pc = "storeShortLog"]
        /\ UNCHANGED <<engineVars, unifyVars, substVars, callbackCounter,
                       pendingCallbacks, promises, evals, dispatchQueue,
                       cacheShortLog, cacheExplanation, cacheFor>>

\* Line 177
StoreShortLog ==
    \E r \in 1..MaxRequests :
        /\ At(r, "storeShortLog")
        /\ cacheShortLog' = requests[r].shortLog
        /\ cacheFor' = [cacheFor EXCEPT ![1] = requests[r].text]
        /\ requests' = [requests EXCEPT ![r].pc = "storeExplanation"]
        /\ UNCHANGED <<engineVars, unifyVars, substVars, callbackCounter,
                       pendingCallbacks, promises, evals, dispatchQueue,
                       cacheText, cacheExplanation>>

\* Line 178
StoreExplanation ==
    \E r \in 1..MaxRequests :
        /\ At(r, "storeExplanation")
        /\ cacheExplanation' = requests[r].explanation
        /\ cacheFor' = [cacheFor EXCEPT ![2] = requests[r].text]
        /\ requests' = [requests EXCEPT ![r].pc = "result"]
        /\ UNCHANGED <<engineVars, unifyVars, substVars, callbackCounter,
                       pendingCallbacks, promises, evals, dispatchQueue,
                       cacheText, cacheShortLog>>

\* Lines 180-193: the answer of a request that ran the engine.
SendResult ==
    \E r \in 1..MaxRequests :
        /\ At(r, "result")
        /\ Finish(r,
                  FinalResult(requests[r].showLog, requests[r].shortLog,
                              requests[r].explanation),
                  <<>>)
        /\ UNCHANGED <<engineVars, unifyVars, substVars, callbackCounter,
                       pendingCallbacks, promises, evals,
                       cacheText, cacheShortLog, cacheExplanation, cacheFor>>

\* The UI thread runs the oldest dispatched function: w.Eval of
\* window._resolveCallback(callbackId, result), lines 8-13.  json.Marshal and
\* the string literal of the script give the page the string that was sent.
ResolveCallback ==
    /\ phase = "new"
    /\ dispatchQueue # <<>>
    /\ LET callbackId == Head(dispatchQueue)[1]
           value == Head(dispatchQueue)[2]
       IN /\ evals' = [evals EXCEPT ![callbackId] = @ + 1]
          /\ IF callbackId \in pendingCallbacks
             THEN /\ promises' = [promises EXCEPT ![callbackId] = @ + 1]
                  /\ pendingCallbacks' = pendingCallbacks \ {callbackId}
             ELSE UNCHANGED <<promises, pendingCallbacks>>
    /\ dispatchQueue' = Tail(dispatchQueue)
    /\ UNCHANGED <<engineVars, unifyVars, substVars, callbackCounter, requests,
                   cacheText, cacheShortLog, cacheExplanation, cacheFor>>

\* The steps of the goroutines and of the UI thread.
WebStep ==
    \/ CheckCache
    \/ CacheHit
    \/ LLMParse
    \/ EngineParse
    \/ EngineProve
    \/ BudgetExit
    \/ SkipPair
    \/ ResolveStep
    \/ PassEnd
    \/ EngineDone
    \/ LLMExplain
    \/ StoreText
    \/ StoreShortLog
    \/ StoreExplanation
    \/ SendResult
    \/ ResolveCallback

NextWeb == SolveProblem \/ WebStep

WebSpec == InitWeb /\ [][NextWeb]_vars

\* The steps other than the call of ParseInput and the call of resolvePair.
LightStep ==
    \/ CheckCache
    \/ CacheHit
    \/ LLMParse
    \/ EngineProve
    \/ BudgetExit
    \/ SkipPair
    \/ PassEnd
    \/ EngineDone
    \/ LLMExplain
    \/ StoreText
    \/ StoreShortLog
    \/ StoreExplanation
    \/ SendResult
    \/ ResolveCallback

\* EngineParse can be taken.
ParseEnabled == \E r \in 1..MaxRequests : At(r, "engine")

\* ResolveStep can be taken.
ResolveEnabled ==
    InLoop /\ ~OverBudget(processedChecks + 1) /\ PairID \notin processedPairs

\* The Go scheduler runs every goroutine that can run, LLMQuery returns, and
\* the UI thread runs the functions dispatched to it.  EngineParse and
\* ResolveStep are taken finitely often, so weak fairness of each is that it
\* is not enabled for ever.
FairWebSpec ==
    /\ WebSpec
    /\ WF_vars(LightStep)
    /\ []<>~ParseEnabled
    /\ []<>~ResolveEnabled

\* ------------------------------------------------------------------------
\* ParseInput on its own: short strings of every shape, and strings with
\* added whitespace
\* ------------------------------------------------------------------------

\* Longest string of the exhaustive part of the inputs.
MaxRunes == 4

\* The runes of those strings.
ParseRunes == {Ch.P, Ch.lp, Ch.rp, Ch.x, Ch.comma, Ch.sp, Ch.neg}

\* Every string of at most MaxRunes of these runes.
ShortStrings == UNION {[1..n -> ParseRunes] : n \in 0..MaxRunes}

\* "f(g(x), a)"
StrNestedTerm == <<Ch.f, Ch.lp, Ch.g, Ch.lp, Ch.x, Ch.rp, Ch.comma, Ch.sp, Ch.a, Ch.rp>>
\* "¬R(f(g(x), a), y) ∨ R(y, f(g(x), a))"
StrNested ==
    <<Ch.neg, Ch.R, Ch.lp>> \o StrNestedTerm \o <<Ch.comma, Ch.sp, Ch.y, Ch.rp>>
    \o <<Ch.sp, Ch.or, Ch.sp>>
    \o <<Ch.R, Ch.lp, Ch.y, Ch.comma, Ch.sp>> \o StrNestedTerm \o <<Ch.rp>>
\* "P(f())"
StrNoArguments == <<Ch.P, Ch.lp, Ch.f, Ch.lp, Ch.rp, Ch.rp>>
\* "P(f(x)"
StrUnclosed == <<Ch.P, Ch.lp, Ch.f, Ch.lp, Ch.x, Ch.rp>>
\* "P(f(x, A), g(y))"
StrTwoFunctions ==
    <<Ch.P, Ch.lp, Ch.f, Ch.lp, Ch.x, Ch.comma, Ch.sp, Ch.A, Ch.rp, Ch.comma, Ch.sp,
      Ch.g, Ch.lp, Ch.y, Ch.rp, Ch.rp>>

\* Longer strings, well formed and not.
LongStrings == {StrNested, StrNoArguments, StrUnclosed, StrTwoFunctions}

\* The string s with the rune r put in after its first pos runes.
InsertRune(s, pos, r) == SubSeq(s, 1, pos) \o <<r>> \o SubSeq(s, pos + 1, Len(s))

\* Clause strings all of whose tokens are one rune long: every position of
\* such a string is the border of a token.
SpacedStrings == {StrFactP, StrGoalQ, StrImplication, StrStep, StrCyclicRight,
                  StrTwoFunctions, StrNested}

\* The lists given to ParseInput: one string, or a string followed by the
\* same string with a space added at one position.
ParseInputs ==
    {<<s>> : s \in ShortStrings \cup LongStrings}
    \cup UNION {{<<s, InsertRune(s, pos, Ch.sp)>> : pos \in 0..Len(s)} : s \in SpacedStrings}

ParseCall == \E strings \in ParseInputs : phase = "new" /\ ParseInput(strings)

ParseSpec == Init /\ [][ParseCall]_vars

\* ------------------------------------------------------------------------
\* The end-to-end inputs of the documentation, with a budget that lasts for
\* their proofs
\* ------------------------------------------------------------------------

\* The iteration budget of these runs; the longest proof takes 72 inspections.
ScenarioBudget == 75

\* "Parent"
StrParent == <<80, 97, 114, 101, 110, 116>>
\* "Grandparent"
StrGrandparent == <<71, 114, 97, 110, 100, 112, 97, 114, 101, 110, 116>>

\* "(a, b)" for the runes a and b
ArgumentPair(a, b) == <<Ch.lp, a, Ch.comma, Ch.sp, b, Ch.rp>>

\* "¬Parent(x, y) ∨ ¬Parent(y, z) ∨ Grandparent(x, z)"
StrTransitive ==
    <<Ch.neg>> \o StrParent \o ArgumentPair(Ch.x, Ch.y) \o <<Ch.sp, Ch.or, Ch.sp>>
    \o <<Ch.neg>> \o StrParent \o ArgumentPair(Ch.y, Ch.z) \o <<Ch.sp, Ch.or, Ch.sp>>
    \o StrGrandparent \o ArgumentPair(Ch.x, Ch.z)
\* "Parent(a, b)"
StrParentAB == StrParent \o ArgumentPair(Ch.a, Ch.b)
\* "Parent(b, c)"
StrParentBC == StrParent \o ArgumentPair(Ch.b, Ch.c)
\* "¬Grandparent(a, c)"
StrGoalGrandparent == <<Ch.neg>> \o StrGrandparent \o ArgumentPair(Ch.a, Ch.c)
\* "P(a)"
StrFactPa == <<Ch.P, Ch.lp, Ch.a, Ch.rp>>
\* "¬Q(a)"
StrGoalQa == <<Ch.neg, Ch.Q, Ch.lp, Ch.a, Ch.rp>>
\* "Q(b)"
StrFactQb == <<Ch.Q, Ch.lp, Ch.b, Ch.rp>>

ScenarioModusPonens == <<StrImplication, StrFactPa, StrGoalQa>>
ScenarioConsistent == <<StrFactPa, StrFactQb>>
ScenarioOccursCheck == <<StrStep, StrDenyP>>
ScenarioTransitivity == <<StrTransitive, StrParentAB, StrParentBC, StrGoalGrandparent>>
ScenarioGrowth == <<StrStep, StrGrow>>

Scenarios == {ScenarioModusPonens, ScenarioConsistent, ScenarioOccursCheck,
              ScenarioTransitivity, ScenarioGrowth}

InitScenario == NewEngine /\ UnifyIdle /\ SubstIdle /\ WebIdle /\ budget = ScenarioBudget

ParseScenario == \E strings \in Scenarios : phase = "new" /\ ParseInput(strings)

NextScenario ==
    \/ ParseScenario
    \/ ProveBegin
    \/ BudgetExit
    \/ SkipPair
    \/ ResolveStep
    \/ PassEnd

ScenarioSpec == InitScenario /\ [][NextScenario]_vars

\* ------------------------------------------------------------------------
\* Properties of Prove
\* ------------------------------------------------------------------------

Returned == phase = "returned"

\* The last clause of the active list.
LastActive == heap[activeClauses[Len(activeClauses)]]

\* C1: Prove returns Success = true if and only if resolvePair built a
\* resolvent without literals during the run, and on success the empty
\* clause is the last clause of the active list.
C1_SuccessIffEmptyDerived ==
    Returned =>
        /\ result.Success <=> emptyBuilt > 0
        /\ result.Success => Len(activeClauses) > 0 /\ IsEmpty(LastActive)

\* C2: ParseInput followed by Prove returns a ProofResult; the run never
\* aborts: no run reaches the state in which the process has died of the
\* stack overflow of a unify call that recurses without end.
C2_ProveNeverAborts == phase # "crashed"

\* C3 as claimed: at every return of Prove the counter of inspected pairs
\* is at most max_iterations.
C3_CounterWithinBudget == Returned => processedChecks <= max_iterations

\* C3 as amended: at every return the counter is at most max_iterations + 1;
\* it is max_iterations + 1 exactly at the budget exit, and at most
\* max_iterations at the success and the no-progress exits.
C3_CounterAtReturn ==
    Returned =>
        /\ processedChecks <= max_iterations + 1
        /\ exit = "budget" <=> processedChecks = max_iterations + 1

C3_Witness == Returned /\ exit = "budget" /\ processedChecks = max_iterations + 1

\* The references to the parents of the clauses of S.
ParentsOf(S) ==
    UNION {{heap[r].Parents[1], heap[r].Parents[2]} : r \in {q \in S : heap[q].Origin = "res"}}
    \ {0}

\* S and the transitive parents of its clauses.
RECURSIVE WithAncestors(_)
WithAncestors(S) ==
    IF ParentsOf(S) \subseteq S THEN S ELSE WithAncestors(S \cup ParentsOf(S))

\* buildProofChain applied to the empty clause of a successful run.
ProofChain == buildProofChain(heap, activeClauses[Len(activeClauses)])

\* The position of the reference r in the sequence seq, 0 when absent.
PositionIn(seq, r) ==
    IF \E n \in 1..Len(seq) : seq[n] = r THEN CHOOSE n \in 1..Len(seq) : seq[n] = r ELSE 0

\* C6: on success the proof chain holds exactly the empty clause and its
\* transitive parents, every clause id once, every resolvent after both of
\* its parents, and the empty clause last.
C6_ProofChainOrdered ==
    exit = "success" =>
        LET chain == ProofChain IN
        /\ {chain[n] : n \in 1..Len(chain)}
               = WithAncestors({activeClauses[Len(activeClauses)]})
        /\ \A m, n \in 1..Len(chain) : m # n => heap[chain[m]].ID # heap[chain[n]].ID
        /\ \A n \in 1..Len(chain) :
              heap[chain[n]].Origin = "res" =>
                 /\ PositionIn(chain, heap[chain[n]].Parents[1]) \in 1..(n - 1)
                 /\ PositionIn(chain, heap[chain[n]].Parents[2]) \in 1..(n - 1)
        /\ chain[Len(chain)] = activeClauses[Len(activeClauses)]
        /\ IsEmpty(heap[chain[Len(chain)]])

\* A proof in which a resolvent other than the empty clause is used.
C6_Witness ==
    /\ exit = "success"
    /\ \E n \in 1..(Len(ProofChain) - 1) : heap[ProofChain[n]].Origin = "res"

\* The values of field of the lines of kind t in a log text.
FieldOf(text, t, field) ==
    LET sel == SelectSeq(text, LAMBDA line : line.t = t)
    IN [n \in 1..Len(sel) |-> sel[n][field]]

\* The ids of the clauses of origin o in the proof chain, in chain order.
ChainIds(o) ==
    LET sel == SelectSeq(ProofChain, LAMBDA r : heap[r].Origin = o)
    IN [n \in 1..Len(sel) |-> heap[sel[n]].ID]

Ascending(ids) == \A m, n \in 1..Len(ids) : m < n => ids[m] < ids[n]

\* The resolution steps of the short log are those of the proof chain, in
\* chain order, numbered 1..k.
StepsInChainOrder ==
    /\ FieldOf(result.ShortLog, "resolvent", "id") = ChainIds("res")
    /\ FieldOf(result.ShortLog, "step", "num") = [n \in 1..Len(ChainIds("res")) |-> n]

\* C7 as claimed: in the short log of a successful proof the initial
\* clauses of the proof chain are listed in ascending id order, and the
\* resolution steps follow in proof-chain order, numbered 1..k.
C7_InitialsAscending ==
    exit = "success" =>
        /\ Ascending(FieldOf(result.ShortLog, "clause", "id"))
        /\ StepsInChainOrder

\* C7 as amended: the initial clauses of the proof chain are listed in
\* proof-chain order, which need not be ascending id order, and the
\* resolution steps follow in proof-chain order, numbered 1..k.
C7_InitialsInChainOrder ==
    exit = "success" =>
        /\ FieldOf(result.ShortLog, "clause", "id") = ChainIds("init")
        /\ StepsInChainOrder

\* A short log with two steps whose initial clauses are not in id order.
C7_Witness ==
    /\ exit = "success"
    /\ ~Ascending(FieldOf(result.ShortLog, "clause", "id"))
    /\ Len(ChainIds("res")) >= 2

\* C8 as claimed: whenever Prove returns Success = false the short log is
\* one line, and the line of the budget exit differs from the line of the
\* no-progress exit.
C8_FailureShortLogOneLine ==
    (Returned /\ ~result.Success) =>
        /\ Len(result.ShortLog) = 1
        /\ exit = "saturated" => result.ShortLog # BudgetResult(<<>>).ShortLog

\* C8 as amended: at the budget exit the short log is the one line
\* "TIMEOUT"; at the no-progress exit it is the full log, of more than one
\* line, whose last line is the result line, and so differs from "TIMEOUT".
C8_FailureShortLog ==
    (Returned /\ ~result.Success) =>
        /\ exit \in {"budget", "saturated"}
        /\ exit = "budget" => result.ShortLog = << [t |-> "timeout"] >>
        /\ exit = "saturated" =>
              /\ result.ShortLog = result.FullLog
              /\ Len(result.ShortLog) > 1
              /\ result.ShortLog[Len(result.ShortLog)]
                    = [t |-> "result", verdict |-> "notFound"]

\* A no-progress exit after resolvents were appended.
C8_Witness ==
    /\ Returned /\ exit = "saturated"
    /\ Len(activeClauses) > Len(clauses)
    /\ Len(result.ShortLog) > 1

\* The full log up to the result line, read off the final active list: the
\* header, the count and the initial clauses, then a step block for every
\* appended resolvent, in append order.
FullLogBody ==
    << [t |-> "fullHeader"], Blank, [t |-> "count", n |-> Len(clauses)] >>
    \o [n \in 1..Len(clauses) |-> ClauseLine(heap[clauses[n]])]
    \o JoinLines([n \in 1..(Len(activeClauses) - Len(clauses)) |->
            LET r == heap[activeClauses[Len(clauses) + n]]
            IN StepEntry(n, heap[r.Parents[1]], heap[r.Parents[2]], r)])

\* C9 as claimed: for every outcome the full log is the header, the initial
\* clauses with ids, one step block per appended resolvent in append order,
\* and a closing result line.
C9_FullLogEndsWithResult ==
    Returned =>
        \E verdict \in {"proved", "notFound"} :
            result.FullLog = FullLogBody \o ResultEntry(verdict)

\* C9 as amended: the full log is the header, the initial clauses with ids
\* and one step block per appended resolvent in append order; it ends with
\* a result line at the success and the no-progress exits, and has no
\* result line at the budget exit.
C9_FullLogShape ==
    Returned =>
        result.FullLog = FullLogBody \o
            (CASE exit = "success" -> ResultEntry("proved")
               [] exit = "saturated" -> ResultEntry("notFound")
               [] exit = "budget" -> <<>>)

\* A budget exit after resolvents were appended.
C9_Witness ==
    /\ Returned /\ exit = "budget"
    /\ Len(activeClauses) > Len(clauses)
    /\ result.FullLog[Len(result.FullLog)].t = "resolvent"

\* C10: the ids of the clauses created since the last ParseInput strictly
\* increase in the order of creation, discarded resolvents included, so no
\* two clauses share an id; the ids of the active list strictly increase in
\* list order.
C10_IdsStrictlyIncrease ==
    /\ \A m, n \in 1..Len(heap) : m < n => heap[m].ID < heap[n].ID
    /\ \A m, n \in 1..Len(activeClauses) :
          m < n => heap[activeClauses[m]].ID < heap[activeClauses[n]].ID

\* A resolvent was discarded as a duplicate and a later one was appended.
C10_Witness ==
    \E m, n \in 1..Len(heap) :
        /\ m < n
        /\ heap[m].Origin = "res"
        /\ \A k \in 1..Len(activeClauses) : activeClauses[k] # m
        /\ \E k \in 1..Len(activeClauses) : activeClauses[k] = n

\* C11: every clause of origin "res" has two parents, both non-nil and both
\* with an id smaller than its own; every clause of origin "init" has no
\* parent.  The parent graph is then acyclic.
C11_ParentsOlder ==
    \A n \in 1..Len(heap) :
        /\ heap[n].Origin \in {"init", "res"}
        /\ heap[n].Origin = "init" => heap[n].Parents = <<0, 0>>
        /\ heap[n].Origin = "res" =>
              \A k \in 1..2 :
                  /\ heap[n].Parents[k] \in 1..Len(heap)
                  /\ heap[heap[n].Parents[k]].ID < heap[n].ID

\* A resolvent of a resolvent: a parent chain of two steps.
C11_Witness ==
    \E n \in 1..Len(heap) :
        /\ heap[n].Origin = "res"
        /\ \E k \in 1..2 : heap[heap[n].Parents[k]].Origin = "res"

\* C12: in the literal list of every clause, initial or resolvent, the
\* string forms strictly ascend: the list is sorted by string form and no two
\* of its literals have the same string form.
C12_LiteralsSortedUnique ==
    \A n \in 1..Len(heap) :
        \A a, b \in 1..Len(heap[n].Literals) :
            a < b => StrLess(LiteralString(heap[n].Literals[a]),
                             LiteralString(heap[n].Literals[b]))

\* An initial clause whose literals stand in another order than in its input
\* string, and a resolvent that lost a repeated literal: it has fewer
\* literals than its parents leave it.
C12_Witness ==
    /\ phase # "new"
    /\ \E n \in 1..Len(input) :
          /\ Len(heap[n].Literals) = Len(ParseClauseLiterals(input[n]))
          /\ heap[n].Literals # ParseClauseLiterals(input[n])
    /\ \E n \in 1..Len(heap) :
          /\ heap[n].Origin = "res"
          /\ Len(heap[n].Literals) + 2
                < Len(heap[heap[n].Parents[1]].Literals)
                  + Len(heap[heap[n].Parents[2]].Literals)

\* C13: within one Prove run no two calls of resolvePair are on the same
\* unordered pair of clause ids, whatever the passes they are made in.
C13_PairResolvedOnce ==
    \A m, n \in 1..Len(resolveCalls) :
        m < n => {resolveCalls[m][1], resolveCalls[m][2]}
                    # {resolveCalls[n][1], resolveCalls[n][2]}

\* A run of several passes: pairs were resolved in a first pass, met again
\* and skipped in a later pass, and new pairs were resolved after that.
C13_Witness ==
    /\ Returned
    /\ Len(currentPool) > Len(clauses)
    /\ Len(resolveCalls) > 3
    /\ processedChecks > Len(resolveCalls) + 1
    /\ \E n \in 1..Len(resolveCalls) : resolveCalls[n][2] > Len(clauses)

\* C14: after ParseInput(strings), whatever the engine held before, the
\* clause list has one clause per input string, in input order: the n-th has
\* id n, origin "init", no parents and the literals parsed from the n-th
\* string; the next id is the number of strings plus one.
C14_ParseInputReplaces ==
    phase = "parsed" =>
        /\ Len(clauses) = Len(input)
        /\ clauseCounter = Len(input) + 1
        /\ \A n \in 1..Len(input) :
              /\ heap[clauses[n]].ID = n
              /\ heap[clauses[n]].Origin = "init"
              /\ heap[clauses[n]].Parents = <<0, 0>>
              /\ heap[clauses[n]].Literals
                    = SortLiterals(removeDuplicateLiterals(ParseClauseLiterals(input[n])))

\* ParseInput of a list that is not empty on an engine that had handed out
\* more ids than an input list can take: an earlier ParseInput was followed
\* by a Prove that built resolvents.
C14_Witness ==
    /\ phase = "parsed"
    /\ Len(input) > 0
    /\ priorCounter > MaxClauses + 1

\* The ids of the initial clauses listed in the short log.
ShortLogInitials ==
    {FieldOf(result.ShortLog, "clause", "id")[n] :
        n \in 1..Len(FieldOf(result.ShortLog, "clause", "id"))}

\* The last step of the log text is a step to the empty clause.
EndsWithEmptyClause(text) ==
    /\ FieldOf(text, "resolvent", "text") # <<>>
    /\ FieldOf(text, "resolvent", "text")[Len(FieldOf(text, "resolvent", "text"))]
          = <<Ch.box>>
    /\ FieldOf(text, "step", "kind")[Len(FieldOf(text, "step", "kind"))] = "contradiction"

\* Prove has returned on the modus ponens or on the transitivity input.
ScenarioReturned ==
    Returned /\ input \in {ScenarioModusPonens, ScenarioTransitivity}

\* Success = true, and the last step of both logs produces the empty clause.
ScenarioProved ==
    /\ result.Success
    /\ EndsWithEmptyClause(result.FullLog)
    /\ EndsWithEmptyClause(result.ShortLog)

Resolved(a, b) ==
    \E n \in 1..Len(resolveCalls) : {resolveCalls[n][1], resolveCalls[n][2]} = {a, b}

\* Some clause of the active list is Equal to the clause c.
InActive(c) ==
    \E n \in 1..Len(activeClauses) : ClauseEqual(c, heap[activeClauses[n]])

\* C22: when Prove returns after a pass without progress, resolvePair has
\* been called on every two clauses of the active list, and every resolvent
\* of two clauses of the active list is Equal to a clause of the active list.
C22_SaturationClosed ==
    exit = "saturated" =>
        \A m, n \in 1..Len(activeClauses) :
            m < n =>
                LET r1 == activeClauses[m]
                    r2 == activeClauses[n]
                    rp == resolvePair(heap[r1], heap[r2], r1, r2, clauseCounter)
                IN /\ Resolved(heap[r1].ID, heap[r2].ID)
                   /\ ~rp.crashed
                   /\ \A k \in 1..Len(rp.resolvents) : InActive(rp.resolvents[k])

\* A run that ends without progress after it appended resolvents and
\* discarded others: some pair of the active list has a resolvent.
C22_Witness ==
    /\ exit = "saturated"
    /\ Len(activeClauses) > Len(clauses)
    /\ \E n \in 1..Len(heap) :
          heap[n].Origin = "res" /\ \A k \in 1..Len(activeClauses) : activeClauses[k] # n

\* The resolvents the loop of lines 630-665 has looked at: all that were
\* built, but for those built after the empty clause by the call that
\* found it.
Inspected ==
    {n \in 1..Len(heap) :
        /\ heap[n].Origin = "res"
        /\ exit = "success" => n <= activeClauses[Len(activeClauses)]}

\* The clause with the reference r is in the active list.
Active(r) == \E k \in 1..Len(activeClauses) : activeClauses[k] = r

\* The sequence s is the start of the sequence t.
StartOf(s, t) == Len(s) <= Len(t) /\ SubSeq(t, 1, Len(s)) = s

\* A resolvent is in the active list if and only if no clause that was in
\* the list before it (a clause of a smaller id) is Equal to it, and no
\* resolvent of the list is Equal to another clause of the list.
AppendedIffNew ==
    /\ \A n \in Inspected :
          Active(n) <=>
              ~\E k \in 1..Len(activeClauses) :
                  /\ heap[activeClauses[k]].ID < heap[n].ID
                  /\ ClauseEqual(heap[n], heap[activeClauses[k]])
    /\ \A m, n \in 1..Len(activeClauses) :
          (m # n /\ heap[activeClauses[m]].Origin = "res")
              => ~ClauseEqual(heap[activeClauses[m]], heap[activeClauses[n]])

\* A step of the saturation loop keeps the active list as the start of the
\* new one and leaves the clauses as they are.
ActiveOnlyGrows ==
    phase = "proving" =>
        /\ StartOf(activeClauses, activeClauses')
        /\ StartOf(heap, heap')

\* C23: a resolvent is appended to the active list if and only if no clause
\* in the list at that moment is Equal to it; the list only grows and its
\* clauses do not change; no resolvent in it is Equal to another clause in it.
C23_AppendOnlyNew == []AppendedIffNew /\ [][ActiveOnlyGrows]_vars

\* In one pass a resolvent was discarded for being Equal to a resolvent
\* appended earlier in the same pass.
C23_Witness ==
    /\ phase = "proving"
    /\ \E n \in Inspected :
          /\ ~Active(n)
          /\ \E k \in (Len(currentPool) + 1)..Len(activeClauses) :
                ClauseEqual(heap[n], heap[activeClauses[k]])
          /\ \A k \in 1..Len(currentPool) :
                ~ClauseEqual(heap[n], heap[activeClauses[k]])

\* The resolvePair calls of the run that returned: all of them, but for the
\* last one of a run that died in it.
ReturnedCalls ==
    IF phase = "crashed" THEN Len(resolveCalls) - 1 ELSE Len(resolveCalls)

\* The reference of the clause with the given id.
RefOf(id) == CHOOSE r \in 1..Len(heap) : heap[r].ID = id

\* The position pairs (i, j) of c1 and c2, i outer and j inner, whose
\* literals have the same predicate, opposite negation flags, and unify.
UnifyingPositions(c1, c2) ==
    LET n2 == Len(c2.Literals)
        all == [k \in 1..(Len(c1.Literals) * n2) |->
                   <<((k - 1) \div n2) + 1, ((k - 1) % n2) + 1>>]
    IN SelectSeq(all, LAMBDA p :
           /\ c1.Literals[p[1]].Predicate = c2.Literals[p[2]].Predicate
           /\ c1.Literals[p[1]].Negated # c2.Literals[p[2]].Negated
           /\ unify(c1.Literals[p[1]], c2.Literals[p[2]], EmptyTheta).st = "ok")

\* The remaining literals of c1 and c2 under the unifier of the positions p.
RemainingLiterals(c1, c2, p) ==
    LET theta == unify(c1.Literals[p[1]], c2.Literals[p[2]], EmptyTheta).theta
    IN {substitute(c1.Literals[n], theta) : n \in (1..Len(c1.Literals)) \ {p[1]}}
       \cup {substitute(c2.Literals[n], theta) : n \in (1..Len(c2.Literals)) \ {p[2]}}

\* The number of clauses the first n calls are to build.
RECURSIVE BuiltBy(_)
BuiltBy(n) ==
    IF n = 0 THEN 0
    ELSE BuiltBy(n - 1)
         + Len(UnifyingPositions(heap[RefOf(resolveCalls[n][1])],
                                 heap[RefOf(resolveCalls[n][2])]))

\* C24: the clauses a returned resolvePair(c1, c2) built are, in the order
\* of the position pairs (i outer, j inner) with equal predicates, opposite
\* signs and unifiable literals, one resolvent each, of origin "res", with
\* the parents (c1, c2) and with the substituted remaining literals of c1
\* and c2 as its literal set; nothing else is built.
C24_ResolventPerPosition ==
    /\ Len(heap) = Len(clauses) + BuiltBy(ReturnedCalls)
    /\ \A n \in 1..ReturnedCalls :
          LET r1 == RefOf(resolveCalls[n][1])
              r2 == RefOf(resolveCalls[n][2])
              pos == UnifyingPositions(heap[r1], heap[r2])
              base == Len(clauses) + BuiltBy(n - 1)
          IN \A k \in 1..Len(pos) :
                /\ heap[base + k].Origin = "res"
                /\ heap[base + k].Parents = <<r1, r2>>
                /\ {heap[base + k].Literals[m] : m \in 1..Len(heap[base + k].Literals)}
                      = RemainingLiterals(heap[r1], heap[r2], pos[k])

\* A call on two clauses of two literals each returned two resolvents, on
\* two positions of c1, each with a literal changed by the substitution.
C24_Witness ==
    \E n \in 1..ReturnedCalls :
        LET c1 == heap[RefOf(resolveCalls[n][1])]
            c2 == heap[RefOf(resolveCalls[n][2])]
            pos == UnifyingPositions(c1, c2)
        IN /\ Len(c1.Literals) = 2 /\ Len(c2.Literals) = 2
           /\ Len(pos) = 2
           /\ pos[1][1] # pos[2][1]
           /\ \A k \in 1..2 :
                 RemainingLiterals(c1, c2, pos[k])
                     # {c1.Literals[m] : m \in (1..2) \ {pos[k][1]}}
                       \cup {c2.Literals[m] : m \in (1..2) \ {pos[k][2]}}

\* ------------------------------------------------------------------------
\* Properties of the parser
\* ------------------------------------------------------------------------

\* The pieces of the n-th input string.
Pieces(n) == Split(input[n], Ch.or)

\* A piece without the whitespace around it and without its negation sign.
Unsigned(piece) ==
    LET t == TrimSpace(piece)
    IN IF t # <<>> /\ Head(t) = Ch.neg THEN TrimSpace(Tail(t)) ELSE t

\* The piece carries a negation sign.
Signed(piece) == TrimSpace(piece) # <<>> /\ Head(TrimSpace(piece)) = Ch.neg

\* The nesting depth in front of the k-th rune of s: the opening parentheses
\* before it less the closing ones.
Depth(s, k) ==
    Cardinality({m \in 1..(k - 1) : s[m] = Ch.lp})
    - Cardinality({m \in 1..(k - 1) : s[m] = Ch.rp})

\* The parentheses of s are balanced.
Balanced(s) ==
    /\ \A k \in 1..(Len(s) + 1) : Depth(s, k) >= 0
    /\ Depth(s, Len(s) + 1) = 0

\* The input is a string followed by the same string with one more space.
SpacedPair ==
    /\ Len(input) = 2
    /\ \E pos \in 0..Len(input[1]) : input[2] = InsertRune(input[1], pos, Ch.sp)

\* C15: a space added at the border of a token of a clause string does not
\* change the parse result: the clause of the string with the space is Equal
\* to the clause of the string without it (Equal compares the predicate names
\* and the string forms of the arguments, function names included).
C15_WhitespaceTolerated ==
    (phase = "parsed" /\ SpacedPair) => ClauseEqual(heap[1], heap[2])

\* The piece has not the shape [¬] predicate ( arg_list ): it has no opening
\* parenthesis, or no closing one after the first opening one, or nothing in
\* front of the first opening one.
Shapeless(piece) ==
    LET u == Unsigned(piece)
    IN \/ IndexOf(u, Ch.lp) = 0
       \/ LastIndexOf(u, Ch.rp) < IndexOf(u, Ch.lp)
       \/ IndexOf(u, Ch.lp) = 1

\* The piece is malformed: it is shapeless or its parentheses are not
\* balanced.
Malformed(piece) == Shapeless(piece) \/ ~Balanced(Unsigned(piece))

\* C16: ParseInput does not abort and makes a clause of every string, and a
\* string all of whose pieces are malformed gives the clause without
\* literals.
C16_MalformedYieldsNoLiteral ==
    /\ phase # "crashed"
    /\ phase = "parsed" =>
          /\ Len(clauses) = Len(input)
          /\ \A n \in 1..Len(input) :
                (\A k \in 1..Len(Pieces(n)) : Malformed(Pieces(n)[k]))
                    => heap[clauses[n]].Literals = <<>>

\* The members of the set S of numbers in ascending order.
Ascend(S) ==
    [k \in 1..Cardinality(S) |-> CHOOSE c \in S : Cardinality({d \in S : d < c}) = k - 1]

\* The segments of s between its commas of depth zero, in order.
Segments(s) ==
    LET cuts == Ascend({0, Len(s) + 1}
                       \cup {k \in 1..Len(s) : s[k] = Ch.comma /\ Depth(s, k) = 0})
    IN [k \in 1..(Len(cuts) - 1) |-> SubSeq(s, cuts[k] + 1, cuts[k + 1] - 1)]

\* Those of the segments that hold more than whitespace.
FilledSegments(s) == SelectSeq(Segments(s), LAMBDA g : TrimSpace(g) # <<>>)

\* The segment has the form name(inner) with balanced parentheses in inner.
IsCall(seg) ==
    LET g == TrimSpace(seg)
    IN /\ IndexOf(g, Ch.lp) > 1
       /\ g[Len(g)] = Ch.rp
       /\ Balanced(SubSeq(g, IndexOf(g, Ch.lp) + 1, Len(g) - 1))

\* The text between the parentheses of a segment of that form.
Inner(seg) ==
    LET g == TrimSpace(seg) IN SubSeq(g, IndexOf(g, Ch.lp) + 1, Len(g) - 1)

\* The terms args are what the rule of C17 makes of the argument text: one
\* term for each filled segment, and for a segment name(inner) a function
\* whose arguments are what the rule makes of inner.
RECURSIVE ArgsMatch(_, _)
ArgsMatch(args, text) ==
    LET segs == FilledSegments(text)
    IN /\ Len(args) = Len(segs)
       /\ \A k \in 1..Len(segs) :
             IsCall(segs[k]) =>
                 /\ args[k].k = "fn"
                 /\ ArgsMatch(args[k].args, Inner(segs[k]))

\* C17: for every piece name(text) of an input string with balanced
\* parentheses in text, the clause has a literal of that name and sign whose
\* arguments are split at the commas of depth zero only: one term for each
\* segment that is not empty, a function for each segment name(inner), its
\* arguments split from inner in the same way.
C17_CommasAtDepthZero ==
    phase = "parsed" =>
        \A n \in 1..Len(input) : \A k \in 1..Len(Pieces(n)) :
            LET u == Unsigned(Pieces(n)[k])
            IN IsCall(u) =>
                 \E m \in 1..Len(heap[clauses[n]].Literals) :
                     LET l == heap[clauses[n]].Literals[m]
                     IN /\ TrimSpace(l.Predicate)
                             = TrimSpace(SubSeq(u, 1, IndexOf(u, Ch.lp) - 1))
                        /\ l.Negated = Signed(Pieces(n)[k])
                        /\ ArgsMatch(l.Args, Inner(u))

\* "¬R(f(g(x), a), y) ∨ R(y, f(g(x), a))" is parsed: one clause of two
\* literals with two arguments each, f(g(x), a) among them with its two
\* arguments, the first of which is the function g of the variable x.
C17_Witness ==
    /\ phase = "parsed"
    /\ input = <<StrNested>>
    /\ Len(heap) = 1
    /\ Len(heap[1].Literals) = 2
    /\ \A m \in 1..2 : Len(heap[1].Literals[m].Args) = 2
    /\ heap[1].Literals[1].Args[2]
          = NewFunction(<<Ch.f>>, <<NewFunction(<<Ch.g>>, <<NewVariable(<<Ch.x>>)>>),
                                   NewVariable(<<Ch.a>>)>>)
    /\ heap[1].Literals[2].Args[1] = heap[1].Literals[1].Args[2]

\* Every function term in t, t included, has an argument.
RECURSIVE FunctionsHaveArguments(_)
FunctionsHaveArguments(t) ==
    t.k = "fn" =>
        /\ Len(t.args) >= 1
        /\ \A n \in 1..Len(t.args) : FunctionsHaveArguments(t.args[n])

\* C18: every function term in a clause of the engine has at least one
\* argument.
C18_FunctionsHaveArguments ==
    \A n \in 1..Len(heap) : \A m \in 1..Len(heap[n].Literals) :
        \A a \in 1..Len(heap[n].Literals[m].Args) :
            FunctionsHaveArguments(heap[n].Literals[m].Args[a])

\* ------------------------------------------------------------------------
\* Properties of unify
\* ------------------------------------------------------------------------

\* The variables of theta's domain that occur in the term bound to v.
BoundIn(theta, v) == {w \in DOMAIN theta : ContainsVar(theta[v], w)}

\* The variables reachable from the set S by following bindings.
RECURSIVE ReachableFrom(_, _)
ReachableFrom(theta, S) ==
    LET more == S \cup UNION {BoundIn(theta, v) : v \in S}
    IN IF more = S THEN S ELSE ReachableFrom(theta, more)

\* theta has no cyclic bindings.
Acyclic(theta) ==
    \A v \in DOMAIN theta : v \notin ReachableFrom(theta, BoundIn(theta, v))

\* t is a function term that contains the variable v.
FunctionOver(t, v) == t.k = "fn" /\ IsVariable(v) /\ ContainsVar(t, v.name)

\* C4: a substitution returned by unify on two literals makes them
\* identical: after substitute the arguments have equal strings, position by
\* position.
C4_UnifierUnifies ==
    uOut.st = "ok" =>
        \A n \in 1..Len(uLit1.Args) :
            TermString(substitute(uLit1, uOut.theta).Args[n])
                = TermString(substitute(uLit2, uOut.theta).Args[n])

\* C5: a substitution returned by unify has no cyclic bindings, and unify of
\* a variable with a function term that contains it (the first argument
\* pair, met with the empty substitution) fails.
C5_NoCyclicBindings ==
    /\ uOut.st = "ok" => Acyclic(uOut.theta)
    /\ (/\ uOut.st # "none"
        /\ \/ FunctionOver(uLit2.Args[1], uLit1.Args[1])
           \/ FunctionOver(uLit1.Args[1], uLit2.Args[1]))
       => uOut.st = "fail"

\* C19: unify of a variable with a term that is no variable and does not
\* contain it succeeds, in either order of the two, with the substitution
\* that binds the variable to the term and nothing else.
C19_VariableBoundEitherWay ==
    \A v, t \in UnifyTerms :
        (/\ uOut.st # "none"
         /\ IsVariable(v) /\ ~IsVariable(t) /\ ~ContainsVar(t, v.name)
         /\ \/ uLit1.Args = <<v>> /\ uLit2.Args = <<t>>
            \/ uLit1.Args = <<t>> /\ uLit2.Args = <<v>>)
        => /\ uOut.st = "ok"
           /\ DOMAIN uOut.theta = {v.name}
           /\ uOut.theta[v.name] = t

\* unify(f(y), x, {}) has returned: the variable is the second argument.
C19_Witness ==
    /\ uOut.st = "ok"
    /\ uLit1.Args = <<NewFunction(<<Ch.f>>, <<VarY>>)>>
    /\ uLit2.Args = <<VarX>>

\* C21: unify on two literals of the same predicate and arity, started from
\* the empty substitution, returns a substitution or a failure: it does not
\* recurse without end.
C21_UnifyTerminates ==
    (uOut.st # "none" /\ Len(uLit1.Args) = Len(uLit2.Args))
        => uOut.st \in {"ok", "fail"}

\* ------------------------------------------------------------------------
\* Properties of substitute
\* ------------------------------------------------------------------------

\* The literal l has no variable of the domain of theta.
FreeOfDomain(l, theta) ==
    \A n \in 1..Len(l.Args) : \A v \in DOMAIN theta : ~ContainsVar(l.Args[n], v)

\* C25: substitute returns for every literal and every substitution, with
\* cyclic bindings too; under a substitution without cyclic bindings the
\* result has no variable of the domain of the substitution, and substitute
\* on the result with the same substitution returns the result unchanged.
C25_SubstituteTerminates ==
    /\ sOut # NoCall => sOut.st = "ok"
    /\ sAgain # NoCall => sAgain.st = "ok"
    /\ (sOut # NoCall /\ Acyclic(sTheta)) => FreeOfDomain(sOut.lit, sTheta)
    /\ (sAgain # NoCall /\ Acyclic(sTheta)) => sAgain.lit = sOut.lit

\* substitute returned under {x -> f(y), y -> f(x)} on a literal with x, and
\* returned again on the result.
C25_Witness ==
    /\ sOut # NoCall
    /\ sAgain # NoCall
    /\ sTheta = [v \in {<<Ch.x>>, <<Ch.y>>} |->
                    IF v = <<Ch.x>> THEN NewFunction(<<Ch.f>>, <<VarY>>)
                    ELSE NewFunction(<<Ch.f>>, <<VarX>>)]
    /\ \E n \in 1..Len(sLit.Args) : ContainsVar(sLit.Args[n], <<Ch.x>>)

\* ------------------------------------------------------------------------
\* Properties of the solve handler
\* ------------------------------------------------------------------------

\* C26: an answer from the cache to a request with the text T is made of a
\* short log and an explanation that were both computed for T, however the
\* goroutines of the requests interleave.
C26_CacheHitForText ==
    \A r \in 1..Len(requests) :
        requests[r].hitFor # <<>> =>
            requests[r].hitFor = <<requests[r].text, requests[r].text>>

\* window._resolveCallback was called for the n-th request.
CalledBack(n) == Len(evals) >= n /\ evals[n] = 1

\* At most one call for the n-th request, at most one resolve of its
\* promise, and no entry left for a resolved promise.
AtMostOnce(n) ==
    Len(evals) >= n =>
        /\ evals[n] <= 1
        /\ promises[n] <= 1
        /\ promises[n] = 1 => n \notin pendingCallbacks

\* C27: every call of the handler leads to exactly one call of
\* window._resolveCallback with its callback id; the page resolves a promise
\* at most once and removes its entry when it does.
C27_ExactlyOneCallback ==
    \A n \in 1..MaxRequests :
        /\ []AtMostOnce(n)
        /\ (Len(requests) >= n) ~> CalledBack(n)

====
